---- MODULE Spec2Model ----
(***************************************************************************)
(* Model of the SonicChat relay (server socket handlers): the Socket.io    *)
(* authentication middleware, the connection handler and the per-socket    *)
(* event handlers, with the Firestore calls they await as suspension       *)
(* points whose outcome (success or throw) is chosen nondeterministically. *)
(*                                                                         *)
(* Strings that the code sorts or concatenates (user ids, room names) are  *)
(* sequences of character codes; other strings are TLA+ strings.           *)
(* Socket ids are the integers 1..NConns; the room that Socket.io gives    *)
(* every socket under its own id is kept apart from the named rooms, so a  *)
(* client never names another socket's id as a room.                       *)
(***************************************************************************)
EXTENDS Integers, Sequences, FiniteSets, TLC

\* ------------------------------------------------------------------ bounds
NConns == 2
MaxSends == 1
\* Messages one run of the ordering specification sends.
MaxOrderSends == 2
\* Messages one run of the buffer specification appends.
MaxAppends == 102
\* REST requests one run receives.
MaxCalls == 3
\* /firebase-sync requests one run receives.
MaxSyncs == 2

Conns == 1..NConns

\* ------------------------------------------------------- character strings
\* Document ids of the two users ("a", "b") and an id with no document ("x").
IdA == <<97>>
IdB == <<98>>
IdX == <<120>>
\* "dm_" and "_"
DmPrefix == <<100, 109, 95>>
Underscore == <<95>>
NoId == <<>>
NoRoom == <<>>

\* The 'users' collection the relay reads: document id, firebaseUid, username.
UserDocs ==
    { [id |-> IdA, firebaseUid |-> "ua", username |-> "alice"],
      [id |-> IdB, firebaseUid |-> "ub", username |-> "bob"] }

UserIds == { d.id : d \in UserDocs }

\* Inputs of the handshake, <<token, firebaseUid, username>>; "" stands for an
\* absent field. The client sends 'Guest' when it has no username; the
\* handshake username is used only when the stored username is empty.
Handshakes ==
    { <<"", "ua", "Guest">>, <<"tok", "", "Guest">>, <<"tok", "ux", "Guest">>,
      <<"tok", "ua", "Guest">>, <<"tok", "ub", "Guest">> }

\* Handshakes that carry a token and the firebaseUid of a user document.
UserHandshakes ==
    { h \in Handshakes :
        h[1] # "" /\ \E d \in UserDocs : d.firebaseUid = h[2] }

\* Inputs of the events.
\* Two broadcast rooms ("g", "h").
RoomG == <<103>>
RoomH == <<104>>
Rooms == {RoomG, RoomH}
RecipientIds == {IdA, IdB, IdX}
Contents == {"hi"}
Types == {"", "image"}

\* ------------------------------------------------------------- JS helpers
\* a < b for JavaScript strings: lexicographic on code units.
RECURSIVE StrLess(_, _)
StrLess(a, b) ==
    IF b = <<>> THEN FALSE
    ELSE IF a = <<>> THEN TRUE
    ELSE IF Head(a) # Head(b) THEN Head(a) < Head(b)
    ELSE StrLess(Tail(a), Tail(b))

\* [x, y].sort(): the default comparator, stable for equal elements.
SortPair(x, y) == IF StrLess(y, x) THEN <<y, x>> ELSE <<x, y>>

\* Faulty variant of DmRoom: the sort is missing.
DmRoomUnsorted(a, b) == DmPrefix \o a \o Underscore \o b

\* Relay, send_private_message: `dm_${[socket.odlserId, data.recipientId].sort().join('_')}`
DmRoom(a, b) ==
    LET s == SortPair(a, b)
    IN DmPrefix \o s[1] \o Underscore \o s[2]

\* REST history routes: `dm_${[req.userId, friendId].sort().join('_')}`
HistoryDmRoom(userId, friendId) ==
    LET s == SortPair(userId, friendId)
    IN DmPrefix \o s[1] \o Underscore \o s[2]

\* Client, handleSelectFriend: `dm_${[userId, friend._id].sort().join('_')}`,
\* where userId is `user?.id || ''`.
ClientDmRoom(userId, friendId) ==
    LET s == SortPair(userId, friendId)
    IN DmPrefix \o s[1] \o Underscore \o s[2]

\* data.type || 'text'
TypeOrText(t) == IF t = "" THEN "text" ELSE t

\* The elements of a set of socket ids as a sequence, ascending: the order in
\* which one broadcast reaches its targets.
RECURSIVE SetToSeq(_)
SetToSeq(S) ==
    IF S = {} THEN <<>>
    ELSE LET m == CHOOSE x \in S : \A y \in S : x <= y
         IN <<m>> \o SetToSeq(S \ {m})

\* ------------------------------------------------- client: encryption.ts
\* JavaScript strings are sequences of UTF-16 code units, byte arrays are
\* sequences of numbers 0..255.
IvLength == 12
KeyLengthBytes == 4
MarkerLength == 2

\* The prefix of an encrypted content, U+1F512 as a surrogate pair.
Marker == <<55357, 56594>>

\* The strings that decrypt returns when it cannot decrypt.
UnableToDecrypt ==
    <<91, 85, 110, 97, 98, 108, 101, 32, 116, 111, 32, 100, 101, 99, 114,
      121, 112, 116, 32, 109, 101, 115, 115, 97, 103, 101, 93>>

KeyNotAvailable ==
    <<91, 69, 110, 99, 114, 121, 112, 116, 101, 100, 32, 109, 101, 115,
      115, 97, 103, 101, 32, 45, 32, 107, 101, 121, 32, 110, 111, 116, 32,
      97, 118, 97, 105, 108, 97, 98, 108, 101, 93>>

\* A CryptoKey: the half of an RSA-OAEP key pair, named by the pair's number;
\* null is NoKey.
PublicKey(k) == [type |-> "public", id |-> k]
PrivateKey(k) == [type |-> "private", id |-> k]
NoKey == [type |-> "", id |-> 0]

IsHighSurrogate(u) == u >= 55296 /\ u <= 56319
IsLowSurrogate(u) == u >= 56320 /\ u <= 57343

\* The UTF-8 bytes of a code point.
Utf8Bytes(cp) ==
    IF cp < 128 THEN <<cp>>
    ELSE IF cp < 2048 THEN <<192 + (cp \div 64), 128 + (cp % 64)>>
    ELSE IF cp < 65536
    THEN <<224 + (cp \div 4096), 128 + ((cp \div 64) % 64), 128 + (cp % 64)>>
    ELSE <<240 + (cp \div 262144), 128 + ((cp \div 4096) % 64),
           128 + ((cp \div 64) % 64), 128 + (cp % 64)>>

\* new TextEncoder().encode(s): a surrogate pair is one code point, a lone
\* surrogate is encoded as U+FFFD.
RECURSIVE TextEncode(_)
TextEncode(s) ==
    IF s = <<>> THEN <<>>
    ELSE IF IsHighSurrogate(s[1]) /\ Len(s) >= 2 /\ IsLowSurrogate(s[2])
    THEN Utf8Bytes(65536 + (s[1] - 55296) * 1024 + (s[2] - 56320))
         \o TextEncode(Tail(Tail(s)))
    ELSE IF IsHighSurrogate(s[1]) \/ IsLowSurrogate(s[1])
    THEN Utf8Bytes(65533) \o TextEncode(Tail(s))
    ELSE Utf8Bytes(s[1]) \o TextEncode(Tail(s))

IsContinuation(b) == b >= 128 /\ b <= 191

\* The code units of UTF-8 bytes; a byte that starts no sequence decodes to
\* U+FFFD.
RECURSIVE Utf8Decode(_)
Utf8Decode(b) ==
    IF b = <<>> THEN <<>>
    ELSE IF b[1] < 128 THEN <<b[1]>> \o Utf8Decode(Tail(b))
    ELSE IF b[1] >= 194 /\ b[1] <= 223 /\ Len(b) >= 2 /\ IsContinuation(b[2])
    THEN <<(b[1] - 192) * 64 + (b[2] - 128)>> \o Utf8Decode(SubSeq(b, 3, Len(b)))
    ELSE IF /\ b[1] >= 224 /\ b[1] <= 239 /\ Len(b) >= 3
            /\ IsContinuation(b[2]) /\ IsContinuation(b[3])
    THEN <<(b[1] - 224) * 4096 + (b[2] - 128) * 64 + (b[3] - 128)>>
         \o Utf8Decode(SubSeq(b, 4, Len(b)))
    ELSE IF /\ b[1] >= 240 /\ b[1] <= 244 /\ Len(b) >= 4
            /\ IsContinuation(b[2]) /\ IsContinuation(b[3]) /\ IsContinuation(b[4])
    THEN LET cp == (b[1] - 240) * 262144 + (b[2] - 128) * 4096
                   + (b[3] - 128) * 64 + (b[4] - 128)
         IN <<55296 + ((cp - 65536) \div 1024), 56320 + ((cp - 65536) % 1024)>>
            \o Utf8Decode(SubSeq(b, 5, Len(b)))
    ELSE <<65533>> \o Utf8Decode(Tail(b))

\* new TextDecoder().decode(bytes): a leading byte order mark is dropped.
TextDecode(b) ==
    IF Len(b) >= 3 /\ SubSeq(b, 1, 3) = <<239, 187, 191>>
    THEN Utf8Decode(SubSeq(b, 4, Len(b)))
    ELSE Utf8Decode(b)

\* The base64 alphabet: A-Z, a-z, 0-9, '+', '/'.
Base64Char(i) ==
    IF i < 26 THEN 65 + i
    ELSE IF i < 52 THEN 97 + (i - 26)
    ELSE IF i < 62 THEN 48 + (i - 52)
    ELSE IF i = 62 THEN 43 ELSE 47

IsBase64Char(ch) ==
    \/ ch >= 65 /\ ch <= 90
    \/ ch >= 97 /\ ch <= 122
    \/ ch >= 48 /\ ch <= 57
    \/ ch = 43
    \/ ch = 47

Base64Index(ch) ==
    IF ch >= 65 /\ ch <= 90 THEN ch - 65
    ELSE IF ch >= 97 /\ ch <= 122 THEN ch - 97 + 26
    ELSE IF ch >= 48 /\ ch <= 57 THEN ch - 48 + 52
    ELSE IF ch = 43 THEN 62 ELSE 63

\* arrayBufferToBase64, lines 153-160: btoa of the bytes.
RECURSIVE ArrayBufferToBase64(_)
ArrayBufferToBase64(b) ==
    IF b = <<>> THEN <<>>
    ELSE IF Len(b) = 1
    THEN <<Base64Char(b[1] \div 4), Base64Char((b[1] % 4) * 16), 61, 61>>
    ELSE IF Len(b) = 2
    THEN <<Base64Char(b[1] \div 4),
           Base64Char((b[1] % 4) * 16 + (b[2] \div 16)),
           Base64Char((b[2] % 16) * 4), 61>>
    ELSE <<Base64Char(b[1] \div 4),
           Base64Char((b[1] % 4) * 16 + (b[2] \div 16)),
           Base64Char((b[2] % 16) * 4 + (b[3] \div 64)),
           Base64Char(b[3] % 64)>>
         \o ArrayBufferToBase64(SubSeq(b, 4, Len(b)))

\* atob without its trailing padding.
StripPadding(s) ==
    IF Len(s) % 4 = 0 /\ Len(s) >= 2 /\ s[Len(s)] = 61
    THEN IF s[Len(s) - 1] = 61 THEN SubSeq(s, 1, Len(s) - 2)
         ELSE SubSeq(s, 1, Len(s) - 1)
    ELSE s

\* atob throws InvalidCharacterError on a character outside the alphabet and
\* on a length that leaves one character over.
ValidBase64(s) ==
    LET t == StripPadding(s)
    IN /\ \A i \in 1..Len(t) : IsBase64Char(t[i])
       /\ Len(t) % 4 # 1

RECURSIVE Base64Bytes(_)
Base64Bytes(t) ==
    IF Len(t) < 2 THEN <<>>
    ELSE LET a == Base64Index(t[1])
             b == Base64Index(t[2])
         IN IF Len(t) = 2 THEN <<a * 4 + (b \div 16)>>
            ELSE LET c == Base64Index(t[3])
                 IN IF Len(t) = 3
                    THEN <<a * 4 + (b \div 16), (b % 16) * 16 + (c \div 4)>>
                    ELSE <<a * 4 + (b \div 16), (b % 16) * 16 + (c \div 4),
                           (c % 4) * 64 + Base64Index(t[4])>>
                         \o Base64Bytes(SubSeq(t, 5, Len(t)))

\* base64ToArrayBuffer, lines 163-170, for a string atob accepts.
Base64ToArrayBuffer(s) == Base64Bytes(StripPadding(s))

\* new Uint8Array(new Uint32Array([n]).buffer): four bytes, least first.
Uint32Bytes(n) ==
    <<n % 256, (n \div 256) % 256, (n \div 65536) % 256, (n \div 16777216) % 256>>

\* new Uint32Array(bytes.buffer)[0]
Uint32Of(b) == b[1] + b[2] * 256 + b[3] * 65536 + b[4] * 16777216

\* RSA-OAEP stands as: the ciphertext names the key pair it was made for, and
\* decrypting with the private key of another pair throws.
RsaEncrypt(publicKey, data) == <<publicKey.id>> \o data

RsaDecrypts(privateKey, bytes) ==
    /\ privateKey.type = "private"
    /\ bytes # <<>>
    /\ bytes[1] = privateKey.id

RsaDecrypt(privateKey, bytes) == Tail(bytes)

\* AES-GCM stands as: every byte shifted by key and nonce, followed by a tag
\* that decryption verifies and throws on.
AesTag(key, iv, n) == (key[1] + iv[1] + n) % 256

AesEncrypt(key, iv, data) ==
    [i \in 1..Len(data) |-> (data[i] + key[1] + iv[1]) % 256]
    \o <<AesTag(key, iv, Len(data))>>

AesDecrypts(key, iv, bytes) ==
    /\ key # <<>>
    /\ iv # <<>>
    /\ bytes # <<>>
    /\ bytes[Len(bytes)] = AesTag(key, iv, Len(bytes) - 1)

AesDecrypt(key, iv, bytes) ==
    [i \in 1..(Len(bytes) - 1) |-> (bytes[i] + 512 - key[1] - iv[1]) % 256]

\* encryptMessage, lines 60-101, with the AES key and the nonce it generated.
EncryptMessage(message, publicKey, aesKey, iv) ==
    LET data == TextEncode(message)
        encryptedMessage == AesEncrypt(aesKey, iv, data)
        encryptedAesKey == RsaEncrypt(publicKey, aesKey)
        combined == iv \o Uint32Bytes(Len(encryptedAesKey)) \o encryptedAesKey
                    \o encryptedMessage
    IN ArrayBufferToBase64(combined)

\* Faulty variant of DecryptMessage: the key is unwrapped whatever private
\* key is presented.
DecryptMessageAnyKey(encryptedData, privateKey) ==
    IF ~ValidBase64(encryptedData) THEN UnableToDecrypt
    ELSE LET combined == Base64ToArrayBuffer(encryptedData)
         IN IF Len(combined) < IvLength + KeyLengthBytes THEN UnableToDecrypt
            ELSE LET iv == SubSeq(combined, 1, IvLength)
                     keyLength == Uint32Of(SubSeq(combined, IvLength + 1,
                                                  IvLength + KeyLengthBytes))
                     from == IvLength + KeyLengthBytes
                     to == IF from + keyLength > Len(combined)
                           THEN Len(combined) ELSE from + keyLength
                     encryptedAesKey == SubSeq(combined, from + 1, to)
                     encryptedMessage == SubSeq(combined, to + 1, Len(combined))
                 IN IF encryptedAesKey = <<>> THEN UnableToDecrypt
                    ELSE LET aesKeyData == RsaDecrypt(privateKey, encryptedAesKey)
                         IN IF ~AesDecrypts(aesKeyData, iv, encryptedMessage)
                            THEN UnableToDecrypt
                            ELSE TextDecode(AesDecrypt(aesKeyData, iv,
                                                       encryptedMessage))

\* decryptMessage, lines 104-150: every throw inside is caught and answered
\* with '[Unable to decrypt message]'.
DecryptMessage(encryptedData, privateKey) ==
    IF ~ValidBase64(encryptedData) THEN UnableToDecrypt
    ELSE LET combined == Base64ToArrayBuffer(encryptedData)
         IN IF Len(combined) < IvLength + KeyLengthBytes THEN UnableToDecrypt
            ELSE LET iv == SubSeq(combined, 1, IvLength)
                     keyLength == Uint32Of(SubSeq(combined, IvLength + 1,
                                                  IvLength + KeyLengthBytes))
                     from == IvLength + KeyLengthBytes
                     to == IF from + keyLength > Len(combined)
                           THEN Len(combined) ELSE from + keyLength
                     encryptedAesKey == SubSeq(combined, from + 1, to)
                     encryptedMessage == SubSeq(combined, to + 1, Len(combined))
                 IN IF ~RsaDecrypts(privateKey, encryptedAesKey)
                    THEN UnableToDecrypt
                    ELSE LET aesKeyData == RsaDecrypt(privateKey, encryptedAesKey)
                         IN IF ~AesDecrypts(aesKeyData, iv, encryptedMessage)
                            THEN UnableToDecrypt
                            ELSE TextDecode(AesDecrypt(aesKeyData, iv,
                                                       encryptedMessage))

\* message.startsWith(prefix)
StartsWith(s, prefix) ==
    Len(s) >= Len(prefix) /\ SubSeq(s, 1, Len(prefix)) = prefix


VARIABLES
    st,           \* socket lifecycle: new, querying, updating, connected,
                  \*   disconnecting (transport closed, cleanup awaiting), closed, refused
    hs,           \* socket.handshake.auth: token, firebaseUid, username
    sock,         \* socket.odlserId, socket.username, socket.firebaseUid
    refusal,      \* the Error the middleware passed to next(), "" if none
    sioRooms,     \* Socket.io adapter: the named rooms each socket has joined
    onlineUsers,  \* Map socketId -> {odlserId, username, rooms}
    userSockets,  \* Map odlserId -> socketId
    messageStore, \* Map room -> StoredMessage[]
    messagesDb,   \* Firestore collection 'messages', in createdAt order
    presence,     \* Firestore users/<id>.status
    pending,      \* handlers suspended at `await addDoc(...)`
    nextId,       \* number of messages sent so far (source of message ids)
    out,          \* the events emitted by the last step, in order
    last,         \* the handler step that ran last
    announced,    \* sockets whose online user_status_change was broadcast
    inbox,        \* client side: the room messages each socket has received, in order
    friendRequests, \* Firestore collection 'friendRequests': id -> document
    friends,      \* Firestore users/<id>.friends
    calls,        \* REST handlers suspended at an await
    nCalls,       \* number of REST requests received so far
    rest,         \* the REST handler step that ran last, with its response
    usersDb,      \* Firestore collection 'users' as /firebase-sync reads and writes it
    isReady,      \* useEncryption: isReady of each client
    privateKeyRef,   \* useEncryption: privateKeyRef.current of each client
    publicKeyCache,  \* useEncryption: publicKeyCache of each client
    decryptedMessages, \* chat page: decryptedMessages of each client
    e2e           \* the call of the encryption layer that ran last, with its result

vars == <<st, hs, sock, refusal, sioRooms, onlineUsers, userSockets,
          messageStore, messagesDb, presence, pending, nextId, out, last,
          announced, inbox, friendRequests, friends, calls, nCalls, rest,
          usersDb, isReady, privateKeyRef, publicKeyCache, decryptedMessages, e2e>>

\* The state of the clients' encryption layer.
clientVars == <<isReady, privateKeyRef, publicKeyCache, decryptedMessages, e2e>>

\* -------------------------------------------------------------- emissions
Ev(ev, to, id, room, content, user, status, users) ==
    [ev |-> ev, to |-> to, id |-> id, room |-> room, content |-> content,
     user |-> user, status |-> status, users |-> users]

\* A socket receives events only while its transport is open.
Live(c) == st[c] = "connected"

\* io.to(room) / socket.to(room): the sockets in the adapter's room.
RoomMembers(r) == { c \in Conns : r \in sioRooms[c] }

\* One emitted event delivered to each socket of `targets`.
EmitTo(targets, ev, id, room, content, user, status, users) ==
    LET s == SetToSeq(targets)
    IN [i \in 1..Len(s) |-> Ev(ev, s[i], id, room, content, user, status, users)]

NoLast == [op |-> "init", c |-> 0, id |-> 0, ok |-> TRUE, room |-> NoRoom,
           rcpt |-> NoId, content |-> "", rooms |-> {}]

\* The record of a handler step: which handler, on which socket, with which
\* message id, outcome of the awaited write, room, recipient and content.
Step(op, c, id, ok, room, rcpt, content) ==
    [op |-> op, c |-> c, id |-> id, ok |-> ok, room |-> room, rcpt |-> rcpt,
     content |-> content, rooms |-> {}]

\* The record of a step of the disconnect handler, with the rooms it is about.
StepRooms(op, c, ok, rooms) ==
    [op |-> op, c |-> c, id |-> 0, ok |-> ok, room |-> NoRoom, rcpt |-> NoId,
     content |-> "", rooms |-> rooms]

\* No REST handler has run (or a socket handler ran last).
NoRest == [op |-> "", pc |-> "", n |-> 0, userId |-> NoId, peer |-> NoId,
           requestId |-> 0, code |-> 0, error |-> "", body |-> <<>>,
           before |-> "", wrote |-> {}, threw |-> FALSE]

\* No call of the encryption layer has run.
NoE2e == [op |-> "", c |-> 0, message |-> <<>>, recipientId |-> NoId,
          publicKey |-> NoKey, result |-> <<>>, privateKey |-> NoKey,
          decrypted |-> <<>>, shown |-> <<>>]

\* The documents of 'users' before any /firebase-sync request: those of the
\* two users, each with the username and avatar its user chose in the app.
StoredUsers ==
    [id \in UserIds |->
        LET d == CHOOSE x \in UserDocs : x.id = id
        IN [firebaseUid |-> d.firebaseUid, username |-> d.username,
            avatar |-> "chosen-" \o d.username,
            email |-> [local |-> "old", domain |-> "x.io"]]]

NoSock == [odlserId |-> NoId, username |-> "", firebaseUid |-> ""]
NoHs == [token |-> "", firebaseUid |-> "", username |-> ""]

Init ==
    /\ st = [c \in Conns |-> "new"]
    /\ hs = [c \in Conns |-> NoHs]
    /\ sock = [c \in Conns |-> NoSock]
    /\ refusal = [c \in Conns |-> ""]
    /\ sioRooms = [c \in Conns |-> {}]
    /\ onlineUsers = << >>
    /\ userSockets = << >>
    /\ messageStore = << >>
    /\ messagesDb = <<>>
    /\ presence = [u \in UserIds |-> "offline"]
    /\ pending = {}
    /\ nextId = 0
    /\ out = <<>>
    /\ last = NoLast
    /\ announced = {}
    /\ inbox = [c \in Conns |-> <<>>]
    /\ friendRequests = << >>
    /\ friends = [u \in UserIds |-> {}]
    /\ calls = {}
    /\ nCalls = 0
    /\ rest = NoRest
    /\ usersDb = StoredUsers
    /\ isReady = [c \in Conns |-> FALSE]
    /\ privateKeyRef = [c \in Conns |-> NoKey]
    /\ publicKeyCache = [c \in Conns |-> << >>]
    /\ decryptedMessages = [c \in Conns |-> << >>]
    /\ e2e = NoE2e

\* ------------------------------------------------------------ Map helpers
Put(f, k, v) == [x \in (DOMAIN f) \cup {k} |-> IF x = k THEN v ELSE f[x]]
Del(f, k) == [x \in (DOMAIN f) \ {k} |-> f[x]]
Has(f, k) == k \in DOMAIN f

\* a || b for strings
OrElse(a, b) == IF a # "" THEN a ELSE b


\* Faulty variant of MiddlewareStart: the check of line 78 is missing.
MiddlewareStartUnchecked(c, tok, uid, uname) ==
    /\ st[c] = "new"
    /\ \A x \in Conns : x < c => st[x] # "new"
    /\ hs' = [hs EXCEPT ![c] = [token |-> tok, firebaseUid |-> uid, username |-> uname]]
    /\ st' = [st EXCEPT ![c] = "querying"]
    /\ out' = <<>>
    /\ last' = Step("middleware", c, 0, TRUE, NoRoom, NoId, "")
    /\ rest' = NoRest
    /\ UNCHANGED <<usersDb, clientVars>>
    /\ UNCHANGED <<inbox, friendRequests, friends, calls, nCalls>>
    /\ UNCHANGED <<sock, refusal, sioRooms, onlineUsers, userSockets,
                   messageStore, messagesDb, presence, pending, nextId,
                   announced>>

\* ------------------------------------------ io.use: the auth middleware
\* Lines 74-85: read the handshake, refuse when token or firebaseUid is
\* missing, otherwise suspend at `await getDocs(q)`.
\* Socket ids are handed out in order, so socket c connects after c-1.
MiddlewareStart(c, tok, uid, uname) ==
    /\ st[c] = "new"
    /\ \A x \in Conns : x < c => st[x] # "new"
    /\ hs' = [hs EXCEPT ![c] = [token |-> tok, firebaseUid |-> uid, username |-> uname]]
    /\ IF tok = "" \/ uid = ""
       THEN /\ st' = [st EXCEPT ![c] = "refused"]
            /\ refusal' = [refusal EXCEPT ![c] = "Authentication required"]
       ELSE /\ st' = [st EXCEPT ![c] = "querying"]
            /\ UNCHANGED refusal
    /\ out' = <<>>
    /\ last' = Step("middleware", c, 0, TRUE, NoRoom, NoId, "")
    /\ rest' = NoRest
    /\ UNCHANGED <<usersDb, clientVars>>
    /\ UNCHANGED <<inbox, friendRequests, friends, calls, nCalls>>
    /\ UNCHANGED <<sock, sioRooms, onlineUsers, userSockets, messageStore,
                   messagesDb, presence, pending, nextId, announced>>

\* Lines 85-99: the query returns (or throws); an empty result refuses the
\* socket, otherwise the socket's identity is set and the middleware
\* suspends at `await updateDoc(... status: 'online' ...)`.
MiddlewareQueryDone(c, ok) ==
    /\ st[c] = "querying"
    /\ LET docs == { d \in UserDocs : d.firebaseUid = hs[c].firebaseUid }
       IN IF ~ok
          THEN /\ st' = [st EXCEPT ![c] = "refused"]
               /\ refusal' = [refusal EXCEPT ![c] = "Authentication failed"]
               /\ UNCHANGED sock
          ELSE IF docs = {}
          THEN /\ st' = [st EXCEPT ![c] = "refused"]
               /\ refusal' = [refusal EXCEPT ![c] = "User not found"]
               /\ UNCHANGED sock
          ELSE LET d == CHOOSE x \in docs : TRUE
               IN /\ sock' = [sock EXCEPT ![c] =
                                [odlserId |-> d.id,
                                 username |-> OrElse(d.username, hs[c].username),
                                 firebaseUid |-> hs[c].firebaseUid]]
                  /\ st' = [st EXCEPT ![c] = "updating"]
                  /\ UNCHANGED refusal
    /\ out' = <<>>
    /\ last' = Step("middleware_query", c, 0, ok, NoRoom, NoId, "")
    /\ rest' = NoRest
    /\ UNCHANGED <<usersDb, clientVars>>
    /\ UNCHANGED <<inbox, friendRequests, friends, calls, nCalls>>
    /\ UNCHANGED <<hs, sioRooms, onlineUsers, userSockets, messageStore,
                   messagesDb, presence, pending, nextId, announced>>

\* io.on('connection'), lines 111-131: what the connection handler does to
\* the registry for socket c.
RegisterOnline(c) ==
    IF sock[c].odlserId # NoId /\ sock[c].username # ""
    THEN Put(onlineUsers, c, [odlserId |-> sock[c].odlserId,
                              username |-> sock[c].username,
                              rooms |-> {},
                              firebaseUid |-> sock[c].firebaseUid])
    ELSE onlineUsers

RegisterSocket(c) ==
    IF sock[c].odlserId # NoId /\ sock[c].username # ""
    THEN Put(userSockets, sock[c].odlserId, c)
    ELSE userSockets

\* Lines 99-109 and 111-131: the presence write returns and next() runs the
\* connection handler, or the write throws and the catch block refuses the
\* socket with 'Authentication failed'.
MiddlewareUpdateDone(c, ok) ==
    /\ st[c] = "updating"
    /\ IF ok
       THEN /\ presence' = [presence EXCEPT ![sock[c].odlserId] = "online"]
            /\ st' = [st EXCEPT ![c] = "connected"]
            /\ onlineUsers' = RegisterOnline(c)
            /\ userSockets' = RegisterSocket(c)
            /\ out' = EmitTo({ x \in Conns : st'[x] = "connected" },
                             "user_status_change", 0, NoRoom, "",
                             sock[c].odlserId, "online", <<>>)
            /\ announced' = announced \cup {c}
            /\ UNCHANGED refusal
       ELSE /\ st' = [st EXCEPT ![c] = "refused"]
            /\ refusal' = [refusal EXCEPT ![c] = "Authentication failed"]
            /\ out' = <<>>
            /\ UNCHANGED <<presence, onlineUsers, userSockets, announced>>
    /\ last' = Step("connection", c, 0, ok, NoRoom, NoId, "")
    /\ rest' = NoRest
    /\ UNCHANGED <<usersDb, clientVars>>
    /\ UNCHANGED <<inbox, friendRequests, friends, calls, nCalls>>
    /\ UNCHANGED <<hs, sock, sioRooms, messageStore, messagesDb, pending,
                   nextId>>

\* ------------------------------------------------- join_room / leave_room
\* onlineUsers.get(socket.id).rooms after add / delete of a room.
WithRooms(c, rs) ==
    IF Has(onlineUsers, c)
    THEN [onlineUsers EXCEPT ![c].rooms = rs]
    ELSE onlineUsers

\* Array.from(onlineUsers.values()).filter(u => u.rooms.has(room)).map(...):
\* the odlserId of every registry entry that holds the room (one per entry).
RoomUsers(ou, r) ==
    LET s == SetToSeq({ x \in DOMAIN ou : r \in ou[x].rooms })
    IN [i \in 1..Len(s) |-> ou[s[i]].odlserId]

\* Faulty variant of JoinRoom: joining a room the socket is already in takes
\* the socket out of it.
JoinRoomToggling(c, r) ==
    /\ st[c] = "connected"
    /\ sioRooms' = [sioRooms EXCEPT ![c] = IF r \in @ THEN @ \ {r} ELSE @ \cup {r}]
    /\ onlineUsers' = IF Has(onlineUsers, c)
                      THEN WithRooms(c, sioRooms'[c])
                      ELSE onlineUsers
    /\ out' = EmitTo(RoomMembers(r) \ {c}, "user_joined", 0, r, "",
                     sock[c].odlserId, "", <<>>)
              \o EmitTo({c}, "room_users", 0, r, "", NoId, "",
                        RoomUsers(onlineUsers', r))
    /\ last' = [Step("join_room", c, 0, TRUE, r, NoId, "")
                   EXCEPT !.rooms = sioRooms[c]]
    /\ rest' = NoRest
    /\ UNCHANGED <<usersDb, clientVars>>
    /\ UNCHANGED <<inbox, friendRequests, friends, calls, nCalls>>
    /\ UNCHANGED <<st, hs, sock, refusal, userSockets, messageStore,
                   messagesDb, presence, pending, nextId, announced>>

\* Lines 134-157. The step records the rooms the socket was in before.
JoinRoom(c, r) ==
    /\ st[c] = "connected"
    /\ sioRooms' = [sioRooms EXCEPT ![c] = @ \cup {r}]
    /\ onlineUsers' = IF Has(onlineUsers, c)
                      THEN WithRooms(c, onlineUsers[c].rooms \cup {r})
                      ELSE onlineUsers
    /\ out' = EmitTo(RoomMembers(r) \ {c}, "user_joined", 0, r, "",
                     sock[c].odlserId, "", <<>>)
              \o EmitTo({c}, "room_users", 0, r, "", NoId, "",
                        RoomUsers(onlineUsers', r))
    /\ last' = [Step("join_room", c, 0, TRUE, r, NoId, "")
                   EXCEPT !.rooms = sioRooms[c]]
    /\ rest' = NoRest
    /\ UNCHANGED <<usersDb, clientVars>>
    /\ UNCHANGED <<inbox, friendRequests, friends, calls, nCalls>>
    /\ UNCHANGED <<st, hs, sock, refusal, userSockets, messageStore,
                   messagesDb, presence, pending, nextId, announced>>

\* Lines 160-175.
LeaveRoom(c, r) ==
    /\ st[c] = "connected"
    /\ sioRooms' = [sioRooms EXCEPT ![c] = @ \ {r}]
    /\ onlineUsers' = IF Has(onlineUsers, c)
                      THEN WithRooms(c, onlineUsers[c].rooms \ {r})
                      ELSE onlineUsers
    /\ out' = EmitTo(RoomMembers(r) \ {c}, "user_left", 0, r, "",
                     sock[c].odlserId, "", <<>>)
    /\ last' = Step("leave_room", c, 0, TRUE, r, NoId, "")
    /\ rest' = NoRest
    /\ UNCHANGED <<usersDb, clientVars>>
    /\ UNCHANGED <<inbox, friendRequests, friends, calls, nCalls>>
    /\ UNCHANGED <<st, hs, sock, refusal, userSockets, messageStore,
                   messagesDb, presence, pending, nextId, announced>>

\* ------------------------------------------------------------- disconnect
\* Lines 313-339: Socket.io has closed the transport and taken the socket out
\* of every room; the handler notifies the rooms of its registry entry and
\* suspends at `await updateDoc(... status: 'offline' ...)`.
RoomsToNotify(c) == IF Has(onlineUsers, c) THEN onlineUsers[c].rooms ELSE {}

RECURSIVE LeftEvents(_, _)
LeftEvents(c, rs) ==
    IF rs = {} THEN <<>>
    ELSE LET r == CHOOSE x \in rs : \A y \in rs : ~StrLess(y, x)
         IN EmitTo(RoomMembers(r) \ {c}, "user_left", 0, r, "",
                   sock[c].odlserId, "", <<>>)
            \o LeftEvents(c, rs \ {r})

DisconnectStart(c) ==
    /\ st[c] = "connected"
    /\ st' = [st EXCEPT ![c] = "disconnecting"]
    /\ sioRooms' = [sioRooms EXCEPT ![c] = {}]
    /\ out' = LeftEvents(c, RoomsToNotify(c))
    /\ last' = StepRooms("disconnect", c, TRUE, sioRooms[c])
    /\ rest' = NoRest
    /\ UNCHANGED <<usersDb, clientVars>>
    /\ UNCHANGED <<inbox, friendRequests, friends, calls, nCalls>>
    /\ UNCHANGED <<hs, sock, refusal, onlineUsers, userSockets, messageStore,
                   messagesDb, presence, pending, nextId, announced>>

\* Lines 341-345: the maps after the handler's two deletes.
UnregisterOnline(c) == Del(onlineUsers, c)


\* Faulty variant of UnregisterSocket: the delete of line 344 is missing.
UnregisterSocketKept(c) == userSockets

UnregisterSocket(c) ==
    IF sock[c].odlserId # NoId THEN Del(userSockets, sock[c].odlserId)
    ELSE userSockets


\* Faulty variant of DisconnectDone: the presence write is not wrapped in try/catch,
\* so a failed write ends the handler before the cleanup and the broadcast.
DisconnectDoneUnwrapped(c, ok) ==
    /\ st[c] = "disconnecting"
    /\ st' = [st EXCEPT ![c] = "closed"]
    /\ presence' = IF ok THEN [presence EXCEPT ![sock[c].odlserId] = "offline"]
                   ELSE presence
    /\ onlineUsers' = IF ok THEN UnregisterOnline(c) ELSE onlineUsers
    /\ userSockets' = IF ok THEN UnregisterSocket(c) ELSE userSockets
    /\ out' = IF ok
              THEN EmitTo({ x \in Conns : Live(x) }, "user_status_change", 0,
                          NoRoom, "", sock[c].odlserId, "offline", <<>>)
              ELSE <<>>
    /\ last' = StepRooms("disconnect_done", c, ok, RoomsToNotify(c))
    /\ rest' = NoRest
    /\ UNCHANGED <<usersDb, clientVars>>
    /\ UNCHANGED <<inbox, friendRequests, friends, calls, nCalls>>
    /\ UNCHANGED <<hs, sock, refusal, sioRooms, messageStore, messagesDb,
                   pending, nextId, announced>>

\* Lines 331-352: the presence write returns or throws (caught and logged),
\* then both maps are cleaned and the offline status is broadcast.
DisconnectDone(c, ok) ==
    /\ st[c] = "disconnecting"
    /\ st' = [st EXCEPT ![c] = "closed"]
    /\ presence' = IF ok THEN [presence EXCEPT ![sock[c].odlserId] = "offline"]
                   ELSE presence
    /\ onlineUsers' = UnregisterOnline(c)
    /\ userSockets' = UnregisterSocket(c)
    /\ out' = EmitTo({ x \in Conns : Live(x) }, "user_status_change", 0,
                     NoRoom, "", sock[c].odlserId, "offline", <<>>)
    /\ last' = StepRooms("disconnect_done", c, ok, RoomsToNotify(c))
    /\ rest' = NoRest
    /\ UNCHANGED <<usersDb, clientVars>>
    /\ UNCHANGED <<inbox, friendRequests, friends, calls, nCalls>>
    /\ UNCHANGED <<hs, sock, refusal, sioRooms, messageStore, messagesDb,
                   pending, nextId, announced>>

\* ---------------------------------------------------- ephemeral buffer
BufferCap == 100

\* Faulty variant of AddMessageToStore: the shift of lines 60-62 is missing.
AddMessageToStoreUnbounded(store, room, message) ==
    LET messages == IF Has(store, room) THEN store[room] ELSE <<>>
    IN Put(store, room, Append(messages, message))

\* addMessageToStore, lines 53-63: push, then shift once past 100 entries.
AddMessageToStore(store, room, message) ==
    LET messages == IF Has(store, room) THEN store[room] ELSE <<>>
        pushed == Append(messages, message)
    IN Put(store, room,
           IF Len(pushed) > BufferCap THEN Tail(pushed) ELSE pushed)

\* getMessagesFromStore, lines 66-68.
GetMessagesFromStore(room) ==
    IF Has(messageStore, room) THEN messageStore[room] ELSE <<>>

StoredMessage(id, content, sender, senderUsername, room, type) ==
    [_id |-> id, content |-> content, sender |-> sender,
     senderUsername |-> senderUsername, room |-> room, type |-> type]

\* A document of the 'messages' collection; senderField tells under which
\* field name the sender's id was written (send_message writes `senderId`,
\* send_private_message writes `sender`).
MessageDoc(m, senderField) ==
    [_id |-> m._id, content |-> m.content, sender |-> m.sender,
     senderUsername |-> m.senderUsername, room |-> m.room, type |-> m.type,
     senderField |-> senderField]

PendingOp(kind, c, rcpt, m) ==
    [kind |-> kind, c |-> c, rcpt |-> rcpt, msg |-> m]

\* socket.emit(...): reaches the socket only while its transport is open.
SocketEmit(c, ev, id, room, content, user, status) ==
    EmitTo(IF Live(c) THEN {c} ELSE {}, ev, id, room, content, user, status, <<>>)

\* ------------------------------------------------------------ send_message
\* Client, socket.on('receive_message', addMessage): every socket of
\* `targets` appends the message to the list it shows. `conn` is the socket
\* that issued the message (the payload itself carries only the sender id).
Deliver(targets, op) ==
    [c \in Conns |->
        IF c \in targets
        THEN Append(inbox[c], [_id |-> op.msg._id, room |-> op.msg.room,
                               sender |-> op.msg.sender, conn |-> op.c])
        ELSE inbox[c]]

\* Lines 178-190: build messageData and suspend at `await addDoc(...)`.
SendMessageStart(c, r, content, type) ==
    /\ st[c] = "connected"
    /\ nextId' = nextId + 1
    /\ pending' = pending \cup
         { PendingOp("send_message", c, NoId,
                     StoredMessage(nextId', content, sock[c].odlserId,
                                   sock[c].username, r, TypeOrText(type))) }
    /\ out' = <<>>
    /\ last' = Step("send_message", c, nextId', TRUE, r, NoId, content)
    /\ rest' = NoRest
    /\ UNCHANGED <<usersDb, clientVars>>
    /\ UNCHANGED <<inbox, friendRequests, friends, calls, nCalls>>
    /\ UNCHANGED <<st, hs, sock, refusal, sioRooms, onlineUsers, userSockets,
                   messageStore, messagesDb, presence, announced>>

\* Lines 190-204: the write returned and the message is broadcast to the
\* room, or it threw and the catch block reports an error to the sender.
SendMessageDone(op, ok) ==
    /\ op \in pending
    /\ op.kind = "send_message"
    /\ pending' = pending \ {op}
    /\ IF ok
       THEN /\ messagesDb' = Append(messagesDb, MessageDoc(op.msg, "senderId"))
            /\ out' = EmitTo(RoomMembers(op.msg.room), "receive_message",
                             op.msg._id, op.msg.room, op.msg.content,
                             op.msg.sender, "", <<>>)
       ELSE /\ UNCHANGED messagesDb
            /\ out' = SocketEmit(op.c, "error", 0, NoRoom, "", NoId,
                                 "Failed to send message")
    /\ last' = Step("send_message_done", op.c, op.msg._id, ok, op.msg.room,
                    NoId, op.msg.content)
    /\ inbox' = IF ok THEN Deliver(RoomMembers(op.msg.room), op) ELSE inbox
    /\ rest' = NoRest
    /\ UNCHANGED <<usersDb, clientVars>>
    /\ UNCHANGED <<friendRequests, friends, calls, nCalls>>
    /\ UNCHANGED <<st, hs, sock, refusal, sioRooms, onlineUsers, userSockets,
                   messageStore, presence, nextId, announced>>

\* ---------------------------------------------------- send_private_message
\* Lines 208-232: derive the DM room, build the message, append it to the
\* buffer and suspend at `await addDoc(...)`. (socket.odlserId is set on
\* every connected socket, so the guard of line 210 never fires.)
SendPrivateMessageStart(c, recipientId, content, type) ==
    /\ st[c] = "connected"
    /\ sock[c].odlserId # NoId
    /\ nextId' = nextId + 1
    /\ LET dmRoom == DmRoom(sock[c].odlserId, recipientId)
           message == StoredMessage(nextId', content, sock[c].odlserId,
                                    OrElse(sock[c].username, "Unknown"),
                                    dmRoom, TypeOrText(type))
       IN /\ messageStore' = AddMessageToStore(messageStore, dmRoom, message)
          /\ pending' = pending \cup
               { PendingOp("send_private_message", c, recipientId, message) }
          /\ last' = Step("send_private_message", c, nextId', TRUE, dmRoom,
                          recipientId, content)
    /\ out' = <<>>
    /\ rest' = NoRest
    /\ UNCHANGED <<usersDb, clientVars>>
    /\ UNCHANGED <<inbox, friendRequests, friends, calls, nCalls>>
    /\ UNCHANGED <<st, hs, sock, refusal, sioRooms, onlineUsers, userSockets,
                   messagesDb, presence, announced>>

\* Lines 243-247: the recipient's socket, looked up when the handler resumes.
RecipientTargets(recipientId) ==
    IF Has(userSockets, recipientId) /\ Live(userSockets[recipientId])
    THEN {userSockets[recipientId]}
    ELSE {}


\* Faulty variant of SendPrivateMessageDone: the write is not wrapped in its own
\* try/catch, so a failed write reaches the outer catch block.
SendPrivateMessageDoneUnwrapped(op, ok) ==
    /\ op \in pending
    /\ op.kind = "send_private_message"
    /\ pending' = pending \ {op}
    /\ messagesDb' = IF ok THEN Append(messagesDb, MessageDoc(op.msg, "sender"))
                     ELSE messagesDb
    /\ out' = IF ok
              THEN SocketEmit(op.c, "receive_private_message", op.msg._id,
                              op.msg.room, op.msg.content, op.msg.sender, "")
                   \o EmitTo(RecipientTargets(op.rcpt), "receive_private_message",
                             op.msg._id, op.msg.room, op.msg.content,
                             op.msg.sender, "", <<>>)
              ELSE SocketEmit(op.c, "error", 0, NoRoom, "", NoId,
                              "Failed to send private message")
    /\ last' = Step("send_private_message_done", op.c, op.msg._id, ok,
                    op.msg.room, op.rcpt, op.msg.content)
    /\ rest' = NoRest
    /\ UNCHANGED <<usersDb, clientVars>>
    /\ UNCHANGED <<inbox, friendRequests, friends, calls, nCalls>>
    /\ UNCHANGED <<st, hs, sock, refusal, sioRooms, onlineUsers, userSockets,
                   messageStore, presence, nextId, announced>>

\* Lines 232-247: the write returned or threw (caught and logged); the
\* message is emitted to the sender's socket and to the recipient's socket.
SendPrivateMessageDone(op, ok) ==
    /\ op \in pending
    /\ op.kind = "send_private_message"
    /\ pending' = pending \ {op}
    /\ messagesDb' = IF ok THEN Append(messagesDb, MessageDoc(op.msg, "sender"))
                     ELSE messagesDb
    /\ out' = SocketEmit(op.c, "receive_private_message", op.msg._id,
                         op.msg.room, op.msg.content, op.msg.sender, "")
              \o EmitTo(RecipientTargets(op.rcpt), "receive_private_message",
                        op.msg._id, op.msg.room, op.msg.content,
                        op.msg.sender, "", <<>>)
    /\ last' = Step("send_private_message_done", op.c, op.msg._id, ok,
                    op.msg.room, op.rcpt, op.msg.content)
    /\ rest' = NoRest
    /\ UNCHANGED <<usersDb, clientVars>>
    /\ UNCHANGED <<inbox, friendRequests, friends, calls, nCalls>>
    /\ UNCHANGED <<st, hs, sock, refusal, sioRooms, onlineUsers, userSockets,
                   messageStore, presence, nextId, announced>>

\* ------------------------------------------------- notification events
\* Lines 257-263: typing_start tells the other sockets of the room.
TypingStart(c, r) ==
    /\ st[c] = "connected"
    /\ out' = EmitTo(RoomMembers(r) \ {c}, "user_typing", 0, r, "",
                     sock[c].odlserId, "", <<>>)
    /\ last' = Step("typing_start", c, 0, TRUE, r, NoId, "")
    /\ rest' = NoRest
    /\ UNCHANGED <<usersDb, clientVars>>
    /\ UNCHANGED <<inbox, friendRequests, friends, calls, nCalls>>
    /\ UNCHANGED <<st, hs, sock, refusal, sioRooms, onlineUsers, userSockets,
                   messageStore, messagesDb, presence, pending, nextId,
                   announced>>

\* Lines 265-271: typing_stop.
TypingStop(c, r) ==
    /\ st[c] = "connected"
    /\ out' = EmitTo(RoomMembers(r) \ {c}, "user_stopped_typing", 0, r, "",
                     sock[c].odlserId, "", <<>>)
    /\ last' = Step("typing_stop", c, 0, TRUE, r, NoId, "")
    /\ rest' = NoRest
    /\ UNCHANGED <<usersDb, clientVars>>
    /\ UNCHANGED <<inbox, friendRequests, friends, calls, nCalls>>
    /\ UNCHANGED <<st, hs, sock, refusal, sioRooms, onlineUsers, userSockets,
                   messageStore, messagesDb, presence, pending, nextId,
                   announced>>

\* Lines 275, 285, 295: userSockets.get(id), then io.to(socketId), which
\* reaches the socket while its transport is open.
NotifyTargets(id) ==
    IF Has(userSockets, id) /\ Live(userSockets[id]) THEN {userSockets[id]}
    ELSE {}

\* Faulty variant of SendFriendRequest: the relay also records the recipient
\* among the sender's friends.
SendFriendRequestRecording(c, recipientId) ==
    /\ st[c] = "connected"
    /\ out' = EmitTo(NotifyTargets(recipientId), "friend_request_received", 0,
                     NoRoom, "", sock[c].odlserId, "", <<>>)
    /\ last' = Step("send_friend_request", c, 0, TRUE, NoRoom, recipientId, "")
    /\ rest' = NoRest
    /\ friends' = [friends EXCEPT ![sock[c].odlserId] = @ \cup {recipientId}]
    /\ UNCHANGED <<usersDb, clientVars>>
    /\ UNCHANGED <<inbox, friendRequests, calls, nCalls>>
    /\ UNCHANGED <<st, hs, sock, refusal, sioRooms, onlineUsers, userSockets,
                   messageStore, messagesDb, presence, pending, nextId,
                   announced>>

\* Lines 274-282: send_friend_request notifies the recipient's socket.
SendFriendRequest(c, recipientId) ==
    /\ st[c] = "connected"
    /\ out' = EmitTo(NotifyTargets(recipientId), "friend_request_received", 0,
                     NoRoom, "", sock[c].odlserId, "", <<>>)
    /\ last' = Step("send_friend_request", c, 0, TRUE, NoRoom, recipientId, "")
    /\ rest' = NoRest
    /\ UNCHANGED <<usersDb, clientVars>>
    /\ UNCHANGED <<inbox, friendRequests, friends, calls, nCalls>>
    /\ UNCHANGED <<st, hs, sock, refusal, sioRooms, onlineUsers, userSockets,
                   messageStore, messagesDb, presence, pending, nextId,
                   announced>>

\* Lines 284-292: accept_friend_request notifies the socket of the request's
\* sender.
AcceptFriendRequest(c, senderId) ==
    /\ st[c] = "connected"
    /\ out' = EmitTo(NotifyTargets(senderId), "friend_request_accepted", 0,
                     NoRoom, "", sock[c].odlserId, "", <<>>)
    /\ last' = Step("accept_friend_request", c, 0, TRUE, NoRoom, senderId, "")
    /\ rest' = NoRest
    /\ UNCHANGED <<usersDb, clientVars>>
    /\ UNCHANGED <<inbox, friendRequests, friends, calls, nCalls>>
    /\ UNCHANGED <<st, hs, sock, refusal, sioRooms, onlineUsers, userSockets,
                   messageStore, messagesDb, presence, pending, nextId,
                   announced>>

\* Lines 294-301: reject_friend_request.
RejectFriendRequest(c, senderId) ==
    /\ st[c] = "connected"
    /\ out' = EmitTo(NotifyTargets(senderId), "friend_request_rejected", 0,
                     NoRoom, "", sock[c].odlserId, "", <<>>)
    /\ last' = Step("reject_friend_request", c, 0, TRUE, NoRoom, senderId, "")
    /\ rest' = NoRest
    /\ UNCHANGED <<usersDb, clientVars>>
    /\ UNCHANGED <<inbox, friendRequests, friends, calls, nCalls>>
    /\ UNCHANGED <<st, hs, sock, refusal, sioRooms, onlineUsers, userSockets,
                   messageStore, messagesDb, presence, pending, nextId,
                   announced>>

\* ================================================================ REST API
\* The routes of routes/friends.ts behind middleware/auth.ts. A request is a
\* record: the route, where it is suspended, the x-firebase-uid header, the
\* req.userId the middleware resolved, the user id or request id of the path,
\* and which of its writes have been applied.
relayVars == <<st, hs, sock, refusal, sioRooms, onlineUsers, userSockets,
               messageStore, messagesDb, presence, pending, nextId, announced,
               inbox>>

\* x-firebase-uid headers: of the two users, and absent.
RestUids == { d.firebaseUid : d \in UserDocs } \cup {""}
\* :requestId parameters.
RequestIds == {1, 2}

RestStep == Step("rest", 0, 0, TRUE, NoRoom, NoId, "")

\* What the last REST step was: the route, the await it resumed from, the
\* response (code 0 while none was sent), the status of the request document
\* it read or overwrote, the writes of its request applied so far, and
\* whether the awaited call threw (every catch block that answers, answers
\* 500, or 401 'Authentication failed' in the middleware).
RestRecord(call, code, error, body, before) ==
    [op |-> call.kind, pc |-> call.pc, n |-> call.n, userId |-> call.userId,
     peer |-> call.peer, requestId |-> call.requestId, code |-> code,
     error |-> error, body |-> body, before |-> before, wrote |-> call.wrote,
     threw |-> (code = 500 \/ error = "Authentication failed")]

\* res.status(code).json(...): the handler ends.
Respond(call, code, error, body, before) ==
    /\ calls' = { x \in calls : x.n # call.n }
    /\ rest' = RestRecord(call, code, error, body, before)

\* The handler goes on to its next await.
Suspend(call, next, before) ==
    /\ calls' = { x \in calls : x.n # call.n } \cup {next}
    /\ rest' = RestRecord([next EXCEPT !.pc = call.pc], 0, "", <<>>, before)

\* Requests in flight are told apart by a number: the least one not in use.
FreeSlot ==
    CHOOSE n \in 1..(Cardinality(calls) + 1) :
        /\ \A call \in calls : call.n # n
        /\ \A m \in 1..(n - 1) : \E call \in calls : call.n = m

\* auth.ts, lines 12-30: the header checks, then `await getDocs(q)`.
AuthMiddlewareStart(kind, uid, peer, requestId) ==
    /\ nCalls' = nCalls + 1
    /\ LET call == [kind |-> kind, pc |-> "auth", n |-> FreeSlot, uid |-> uid,
                    userId |-> NoId, peer |-> peer, requestId |-> requestId,
                    wrote |-> {}]
       IN IF uid = ""
          THEN Respond(call, 401, "Firebase UID required", <<>>, "")
          ELSE Suspend(call, call, "")
    /\ out' = <<>>
    /\ last' = RestStep
    /\ UNCHANGED <<friendRequests, friends>>
    /\ UNCHANGED relayVars
    /\ UNCHANGED <<usersDb, clientVars>>

\* auth.ts, lines 30-48, then the route handler up to its first await:
\* friends.ts lines 101-110 (send request), 184 (accept), 230 (reject), 373-376
\* (DM history).
AuthMiddlewareDone(call, ok) ==
    /\ call \in calls
    /\ call.pc = "auth"
    /\ LET docs == { d \in UserDocs : d.firebaseUid = call.uid }
       IN IF ~ok
          THEN Respond(call, 401, "Authentication failed", <<>>, "")
          ELSE IF docs = {}
          THEN Respond(call, 401, "User not found. Please log in again.", <<>>, "")
          ELSE LET req == [call EXCEPT !.userId = (CHOOSE d \in docs : TRUE).id]
               IN IF req.kind = "request"
                  THEN IF req.peer = req.userId
                       THEN Respond(req, 400, "Cannot send friend request to yourself",
                                    <<>>, "")
                       ELSE Suspend(call, [req EXCEPT !.pc = "recipient"], "")
                  ELSE IF req.kind = "dm"
                  THEN Suspend(call, [req EXCEPT !.pc = "user"], "")
                  ELSE Suspend(call, [req EXCEPT !.pc = "get"], "")
    /\ out' = <<>>
    /\ last' = RestStep
    /\ UNCHANGED <<friendRequests, friends, nCalls>>
    /\ UNCHANGED relayVars
    /\ UNCHANGED <<usersDb, clientVars>>

\* ------------------------------------------------ POST /request/:userId
\* The pending requests from one user to another.
PendingRequests(from, to) ==
    { r \in DOMAIN friendRequests :
        /\ friendRequests[r].senderId = from
        /\ friendRequests[r].recipientId = to
        /\ friendRequests[r].status = "pending" }

\* Lines 110-117: the recipient's document was read.
SendRequestRecipientDone(call, ok) ==
    /\ call \in calls
    /\ call.kind = "request" /\ call.pc = "recipient"
    /\ IF ~ok
       THEN Respond(call, 500, "Failed to send friend request", <<>>, "")
       ELSE IF call.peer \notin UserIds
       THEN Respond(call, 404, "User not found", <<>>, "")
       ELSE Suspend(call, [call EXCEPT !.pc = "user"], "")
    /\ out' = <<>>
    /\ last' = RestStep
    /\ UNCHANGED <<friendRequests, friends, nCalls>>
    /\ UNCHANGED relayVars
    /\ UNCHANGED <<usersDb, clientVars>>

\* Lines 117-131: the caller's document was read.
SendRequestUserDone(call, ok) ==
    /\ call \in calls
    /\ call.kind = "request" /\ call.pc = "user"
    /\ IF ~ok
       THEN Respond(call, 500, "Failed to send friend request", <<>>, "")
       ELSE IF call.peer \in friends[call.userId]
       THEN Respond(call, 400, "Already friends with this user", <<>>, "")
       ELSE Suspend(call, [call EXCEPT !.pc = "existing"], "")
    /\ out' = <<>>
    /\ last' = RestStep
    /\ UNCHANGED <<friendRequests, friends, nCalls>>
    /\ UNCHANGED relayVars
    /\ UNCHANGED <<usersDb, clientVars>>

\* Lines 131-145: the query for a pending request to the recipient returned.
SendRequestExistingDone(call, ok) ==
    /\ call \in calls
    /\ call.kind = "request" /\ call.pc = "existing"
    /\ IF ~ok
       THEN Respond(call, 500, "Failed to send friend request", <<>>, "")
       ELSE IF PendingRequests(call.userId, call.peer) # {}
       THEN Respond(call, 400, "Friend request already sent", <<>>, "")
       ELSE Suspend(call, [call EXCEPT !.pc = "reverse"], "")
    /\ out' = <<>>
    /\ last' = RestStep
    /\ UNCHANGED <<friendRequests, friends, nCalls>>
    /\ UNCHANGED relayVars
    /\ UNCHANGED <<usersDb, clientVars>>

\* Lines 145-153: the query for a pending request from the recipient returned.
SendRequestReverseDone(call, ok) ==
    /\ call \in calls
    /\ call.kind = "request" /\ call.pc = "reverse"
    /\ IF ~ok
       THEN Respond(call, 500, "Failed to send friend request", <<>>, "")
       ELSE IF PendingRequests(call.peer, call.userId) # {}
       THEN Respond(call, 400, "This user already sent you a friend request",
                    <<>>, "")
       ELSE Suspend(call, [call EXCEPT !.pc = "add"], "")
    /\ out' = <<>>
    /\ last' = RestStep
    /\ UNCHANGED <<friendRequests, friends, nCalls>>
    /\ UNCHANGED relayVars
    /\ UNCHANGED <<usersDb, clientVars>>

\* Lines 153-178: the request document was added (its id is the next free
\* one), or the write threw.
SendRequestAddDone(call, ok) ==
    /\ call \in calls
    /\ call.kind = "request" /\ call.pc = "add"
    /\ IF ok
       THEN LET id == Cardinality(DOMAIN friendRequests) + 1
            IN /\ friendRequests' =
                    Put(friendRequests, id,
                        [senderId |-> call.userId, recipientId |-> call.peer,
                         status |-> "pending"])
               /\ Respond([call EXCEPT !.requestId = id], 201,
                          "", <<>>, "")
       ELSE /\ UNCHANGED friendRequests
            /\ Respond(call, 500, "Failed to send friend request", <<>>, "")
    /\ out' = <<>>
    /\ last' = RestStep
    /\ UNCHANGED <<friends, nCalls>>
    /\ UNCHANGED relayVars
    /\ UNCHANGED <<usersDb, clientVars>>

\* ----------------------------- POST /accept/:requestId, /reject/:requestId
\* requestDoc.data().status, "" when the document does not exist.
StatusOf(requestId) ==
    IF Has(friendRequests, requestId) THEN friendRequests[requestId].status
    ELSE ""

\* Lines 186 and 232: the guard of accept and of reject.
NotFound(requestId, userId) ==
    \/ ~Has(friendRequests, requestId)
    \/ friendRequests[requestId].recipientId # userId
    \/ friendRequests[requestId].status # "pending"

\* Lines 184-194: the request document was read.
AcceptGetDone(call, ok) ==
    /\ call \in calls
    /\ call.kind = "accept" /\ call.pc = "get"
    /\ IF ~ok
       THEN Respond(call, 500, "Failed to accept friend request", <<>>, "")
       ELSE IF NotFound(call.requestId, call.userId)
       THEN Respond(call, 404, "Friend request not found", <<>>,
                    StatusOf(call.requestId))
       ELSE Suspend(call,
                    [call EXCEPT !.pc = "status",
                                 !.peer = friendRequests[call.requestId].senderId],
                    StatusOf(call.requestId))
    /\ out' = <<>>
    /\ last' = RestStep
    /\ UNCHANGED <<friendRequests, friends, nCalls>>
    /\ UNCHANGED relayVars
    /\ UNCHANGED <<usersDb, clientVars>>

\* Lines 194-200: the status of the request was written, or the write threw.
AcceptStatusDone(call, ok) ==
    /\ call \in calls
    /\ call.kind = "accept" /\ call.pc = "status"
    /\ IF ok
       THEN /\ friendRequests' =
                 [friendRequests EXCEPT ![call.requestId].status = "accepted"]
            /\ Suspend(call, [call EXCEPT !.pc = "mine",
                                          !.wrote = @ \cup {"status"}],
                       StatusOf(call.requestId))
       ELSE /\ UNCHANGED friendRequests
            /\ Respond(call, 500, "Failed to accept friend request", <<>>, "")
    /\ out' = <<>>
    /\ last' = RestStep
    /\ UNCHANGED <<friends, nCalls>>
    /\ UNCHANGED relayVars
    /\ UNCHANGED <<usersDb, clientVars>>

\* Lines 200-204: the sender was added to the caller's friends (arrayUnion),
\* or the write threw.
AcceptMineDone(call, ok) ==
    /\ call \in calls
    /\ call.kind = "accept" /\ call.pc = "mine"
    /\ IF ok
       THEN /\ friends' = [friends EXCEPT ![call.userId] = @ \cup {call.peer}]
            /\ Suspend(call, [call EXCEPT !.pc = "theirs",
                                          !.wrote = @ \cup {"mine"}], "")
       ELSE /\ UNCHANGED friends
            /\ Respond(call, 500, "Failed to accept friend request", <<>>, "")
    /\ out' = <<>>
    /\ last' = RestStep
    /\ UNCHANGED <<friendRequests, nCalls>>
    /\ UNCHANGED relayVars
    /\ UNCHANGED <<usersDb, clientVars>>

\* Lines 204-209: the caller was added to the sender's friends, or the write
\* threw.
AcceptTheirsDone(call, ok) ==
    /\ call \in calls
    /\ call.kind = "accept" /\ call.pc = "theirs"
    /\ IF ok
       THEN /\ friends' = [friends EXCEPT ![call.peer] = @ \cup {call.userId}]
            /\ Suspend(call, [call EXCEPT !.pc = "sender",
                                          !.wrote = @ \cup {"theirs"}], "")
       ELSE /\ UNCHANGED friends
            /\ Respond(call, 500, "Failed to accept friend request", <<>>, "")
    /\ out' = <<>>
    /\ last' = RestStep
    /\ UNCHANGED <<friendRequests, nCalls>>
    /\ UNCHANGED relayVars
    /\ UNCHANGED <<usersDb, clientVars>>

\* Lines 209-225: the sender's document was read for the response.
AcceptSenderDone(call, ok) ==
    /\ call \in calls
    /\ call.kind = "accept" /\ call.pc = "sender"
    /\ IF ok
       THEN Respond(call, 200, "", <<>>, "")
       ELSE Respond(call, 500, "Failed to accept friend request", <<>>, "")
    /\ out' = <<>>
    /\ last' = RestStep
    /\ UNCHANGED <<friendRequests, friends, nCalls>>
    /\ UNCHANGED relayVars
    /\ UNCHANGED <<usersDb, clientVars>>

\* Lines 230-237: the request document was read.
RejectGetDone(call, ok) ==
    /\ call \in calls
    /\ call.kind = "reject" /\ call.pc = "get"
    /\ IF ~ok
       THEN Respond(call, 500, "Failed to reject friend request", <<>>, "")
       ELSE IF NotFound(call.requestId, call.userId)
       THEN Respond(call, 404, "Friend request not found", <<>>,
                    StatusOf(call.requestId))
       ELSE Suspend(call, [call EXCEPT !.pc = "status"],
                    StatusOf(call.requestId))
    /\ out' = <<>>
    /\ last' = RestStep
    /\ UNCHANGED <<friendRequests, friends, nCalls>>
    /\ UNCHANGED relayVars
    /\ UNCHANGED <<usersDb, clientVars>>

\* Lines 237-247: the status of the request was written, or the write threw.
RejectStatusDone(call, ok) ==
    /\ call \in calls
    /\ call.kind = "reject" /\ call.pc = "status"
    /\ IF ok
       THEN /\ friendRequests' =
                 [friendRequests EXCEPT ![call.requestId].status = "rejected"]
            /\ Respond([call EXCEPT !.wrote = @ \cup {"status"}], 200, "", <<>>,
                       StatusOf(call.requestId))
       ELSE /\ UNCHANGED friendRequests
            /\ Respond(call, 500, "Failed to reject friend request", <<>>, "")
    /\ out' = <<>>
    /\ last' = RestStep
    /\ UNCHANGED <<friends, nCalls>>
    /\ UNCHANGED relayVars
    /\ UNCHANGED <<usersDb, clientVars>>

\* ------------------------------------------------------ GET /dm/:friendId
\* Lines 395-407: a document of 'messages' as the route returns it. The route
\* reads the field `sender`, which send_message does not write.
HistoryEntry(d) ==
    StoredMessage(d._id, d.content,
                  IF d.senderField = "sender" THEN d.sender ELSE NoId,
                  d.senderUsername, d.room, TypeOrText(d.type))

\* messages.slice(-100)
LastHundred(seq) ==
    IF Len(seq) > BufferCap
    THEN SubSeq(seq, Len(seq) - BufferCap + 1, Len(seq))
    ELSE seq

\* Lines 389-418: the documents of the room, oldest first, the last 100.
FirestoreHistory(room) ==
    LET docs == SelectSeq(messagesDb, LAMBDA d : d.room = room)
    IN LastHundred([i \in 1..Len(docs) |-> HistoryEntry(docs[i])])

\* Lines 376-393: the caller's document was read, or the read threw, which
\* the outer catch block answers.
DmUserDone(call, ok) ==
    /\ call \in calls
    /\ call.kind = "dm" /\ call.pc = "user"
    /\ IF ~ok
       THEN Respond(call, 500, "Failed to fetch messages", <<>>, "")
       ELSE IF call.peer \notin friends[call.userId]
       THEN Respond(call, 403, "You can only chat with friends", <<>>, "")
       ELSE Suspend(call, [call EXCEPT !.pc = "query"], "")
    /\ out' = <<>>
    /\ last' = RestStep
    /\ UNCHANGED <<friendRequests, friends, nCalls>>
    /\ UNCHANGED relayVars
    /\ UNCHANGED <<usersDb, clientVars>>

\* Lines 393-427: the query returned and its documents are the response, or
\* it threw and the inner catch block answers with the buffer of the room.
DmQueryDone(call, ok) ==
    /\ call \in calls
    /\ call.kind = "dm" /\ call.pc = "query"
    /\ LET dmRoom == HistoryDmRoom(call.userId, call.peer)
       IN /\ calls' = { x \in calls : x.n # call.n }
          /\ rest' = IF ok
                     THEN RestRecord(call, 200, "", FirestoreHistory(dmRoom), "")
                     ELSE [RestRecord(call, 200, "", GetMessagesFromStore(dmRoom), "")
                             EXCEPT !.threw = TRUE]
    /\ out' = <<>>
    /\ last' = RestStep
    /\ UNCHANGED <<friendRequests, friends, nCalls>>
    /\ UNCHANGED relayVars
    /\ UNCHANGED <<usersDb, clientVars>>

\* ==================================================== POST /firebase-sync
\* The route of part_004, lines 19-93, which stands behind no middleware. An
\* email is the part before its '@' and the part after it; NoEmail is an
\* absent one.
NoEmail == [local |-> "", domain |-> ""]

\* Request bodies {firebaseUid, email, username, avatar}: without a UID,
\* without an email, of user a with the profile of the identity provider,
\* of user a with no profile, and of a UID that has no document yet, without
\* and with a profile and with an email that has nothing before its '@'.
SyncBodies ==
    { [firebaseUid |-> "", email |-> [local |-> "al", domain |-> "x.io"],
       username |-> "", avatar |-> ""],
      [firebaseUid |-> "ua", email |-> NoEmail, username |-> "", avatar |-> ""],
      [firebaseUid |-> "ua", email |-> [local |-> "al", domain |-> "x.io"],
       username |-> "provider-name", avatar |-> "provider.png"],
      [firebaseUid |-> "ua", email |-> [local |-> "al", domain |-> "x.io"],
       username |-> "", avatar |-> ""],
      [firebaseUid |-> "un", email |-> [local |-> "nu", domain |-> "x.io"],
       username |-> "", avatar |-> ""],
      [firebaseUid |-> "un", email |-> [local |-> "nu", domain |-> "x.io"],
       username |-> "nick", avatar |-> "provider.png"],
      [firebaseUid |-> "un", email |-> [local |-> "", domain |-> "x.io"],
       username |-> "", avatar |-> ""] }

\* email.split('@')[0]
LocalPart(email) == email.local

\* `https://api.dicebear.com/7.x/avataaars/svg?seed=${firebaseUid}`
DefaultAvatar(firebaseUid) == "dicebear:" \o firebaseUid

\* querySnapshot.docs of where('firebaseUid', '==', uid): the ids, and the
\* first of them in the order of the document ids.
UsersWithUid(uid) == { id \in DOMAIN usersDb : usersDb[id].firebaseUid = uid }

FirstDoc(ids) == CHOOSE id \in ids : \A other \in ids : ~StrLess(other, id)

\* The id that addDoc gives the next document: "c", "d", ...
NewUserId == <<97 + Cardinality(DOMAIN usersDb)>>

NoUserData == [username |-> "", avatar |-> "", email |-> NoEmail]

\* Lines 19-30: the body is checked, then `await getDocs(q)`.
SyncStart(body) ==
    /\ nCalls' = nCalls + 1
    /\ LET call == [kind |-> "sync", pc |-> "query", n |-> FreeSlot,
                    uid |-> body.firebaseUid, userId |-> NoId, peer |-> NoId,
                    requestId |-> 0, wrote |-> {}, email |-> body.email,
                    username |-> body.username, avatar |-> body.avatar,
                    existing |-> NoUserData, userData |-> NoUserData]
       IN IF body.firebaseUid = "" \/ body.email = NoEmail
          THEN Respond(call, 400, "Firebase UID and email are required", <<>>, "")
          ELSE Suspend(call, call, "")
    /\ out' = <<>>
    /\ last' = RestStep
    /\ UNCHANGED <<friendRequests, friends, usersDb, clientVars>>
    /\ UNCHANGED relayVars

\* Lines 30-53 and 59-74: the query returned (or threw); for a UID with a
\* document userData keeps the stored username and avatar and the handler
\* suspends at `await updateDoc(...)`, for a UID with none userData takes the
\* defaults and the handler suspends at `await addDoc(...)`.
SyncQueryDone(call, ok) ==
    /\ call \in calls
    /\ call.kind = "sync" /\ call.pc = "query"
    /\ LET ids == UsersWithUid(call.uid)
       IN IF ~ok
          THEN Respond(call, 500, "Failed to sync user", <<>>, "")
          ELSE IF ids # {}
          THEN LET userId == FirstDoc(ids)
                   existingData == usersDb[userId]
                   userData ==
                       [username |-> OrElse(existingData.username,
                                            OrElse(call.username, LocalPart(call.email))),
                        avatar |-> OrElse(existingData.avatar,
                                          OrElse(call.avatar, DefaultAvatar(call.uid))),
                        email |-> call.email]
               IN Suspend(call, [call EXCEPT !.pc = "update", !.userId = userId,
                                             !.existing = [username |-> existingData.username,
                                                           avatar |-> existingData.avatar,
                                                           email |-> existingData.email],
                                             !.userData = userData], "")
          ELSE LET userData ==
                       [username |-> OrElse(call.username, LocalPart(call.email)),
                        avatar |-> OrElse(call.avatar, DefaultAvatar(call.uid)),
                        email |-> call.email]
               IN Suspend(call, [call EXCEPT !.pc = "add", !.userData = userData], "")
    /\ out' = <<>>
    /\ last' = RestStep
    /\ UNCHANGED <<friendRequests, friends, nCalls, usersDb, clientVars>>
    /\ UNCHANGED relayVars

\* res.json of lines 78-88.
SyncedUser(userId, call) ==
    [id |-> userId, firebaseUid |-> call.uid, username |-> call.userData.username,
     email |-> call.userData.email, avatar |-> call.userData.avatar]

\* What the response step reports beside the body: the stored username and
\* avatar the handler read, and those of the request.
SyncBefore(call) ==
    [username |-> call.existing.username, avatar |-> call.existing.avatar,
     requested |-> [username |-> call.username, avatar |-> call.avatar]]

\* Faulty variant of SyncUpdateDone: the update writes the username and the
\* avatar of the request.
SyncUpdateDoneOverwriting(call, ok) ==
    /\ call \in calls
    /\ call.kind = "sync" /\ call.pc = "update"
    /\ IF ok
       THEN /\ usersDb' = [usersDb EXCEPT ![call.userId].email = call.userData.email,
                                         ![call.userId].username = call.username,
                                         ![call.userId].avatar = call.avatar]
            /\ presence' = Put(presence, call.userId, "online")
            /\ Respond(call, 200, "", SyncedUser(call.userId, call), SyncBefore(call))
       ELSE /\ UNCHANGED <<usersDb, presence>>
            /\ Respond(call, 500, "Failed to sync user", <<>>, "")
    /\ out' = <<>>
    /\ last' = RestStep
    /\ UNCHANGED <<friendRequests, friends, nCalls, clientVars>>
    /\ UNCHANGED <<st, hs, sock, refusal, sioRooms, onlineUsers, userSockets,
                   messageStore, messagesDb, pending, nextId, announced, inbox>>

\* Lines 53-58 and 78-92: the update of email, status and the timestamps
\* returned and the handler answers with userData, or it threw.
SyncUpdateDone(call, ok) ==
    /\ call \in calls
    /\ call.kind = "sync" /\ call.pc = "update"
    /\ IF ok
       THEN /\ usersDb' = [usersDb EXCEPT ![call.userId].email = call.userData.email]
            /\ presence' = Put(presence, call.userId, "online")
            /\ Respond(call, 200, "", SyncedUser(call.userId, call), SyncBefore(call))
       ELSE /\ UNCHANGED <<usersDb, presence>>
            /\ Respond(call, 500, "Failed to sync user", <<>>, "")
    /\ out' = <<>>
    /\ last' = RestStep
    /\ UNCHANGED <<friendRequests, friends, nCalls, clientVars>>
    /\ UNCHANGED <<st, hs, sock, refusal, sioRooms, onlineUsers, userSockets,
                   messageStore, messagesDb, pending, nextId, announced, inbox>>

\* Lines 74-92: addDoc returned the new document's id and the handler answers
\* with userData, or it threw.
SyncAddDone(call, ok) ==
    /\ call \in calls
    /\ call.kind = "sync" /\ call.pc = "add"
    /\ IF ok
       THEN /\ usersDb' = Put(usersDb, NewUserId,
                              [firebaseUid |-> call.uid,
                               username |-> call.userData.username,
                               avatar |-> call.userData.avatar,
                               email |-> call.userData.email])
            /\ presence' = Put(presence, NewUserId, "online")
            /\ friends' = Put(friends, NewUserId, {})
            /\ Respond([call EXCEPT !.userId = NewUserId], 200, "",
                       SyncedUser(NewUserId, call), SyncBefore(call))
       ELSE /\ UNCHANGED <<usersDb, presence, friends>>
            /\ Respond(call, 500, "Failed to sync user", <<>>, "")
    /\ out' = <<>>
    /\ last' = RestStep
    /\ UNCHANGED <<friendRequests, nCalls, clientVars>>
    /\ UNCHANGED <<st, hs, sock, refusal, sioRooms, onlineUsers, userSockets,
                   messageStore, messagesDb, pending, nextId, announced, inbox>>

\* ==================================================== client: encryption
\* The hook useEncryption and the chat page on top of encryption.ts. Client c
\* is the browser behind socket c; its key pair is pair number c.
serverVars == <<relayVars, friendRequests, friends, calls, nCalls, rest,
                usersDb, out, last>>

KeyPairs == Conns

\* Messages: "hi", U+00E9, U+20AC, U+1F600, a lone high surrogate, the lock
\* emoji followed by "hi", a byte order mark followed by "h", and "".
Messages ==
    { <<104, 105>>, <<233>>, <<8364>>, <<55357, 56832>>, <<55357>>,
      Marker \o <<104, 105>>, <<65279, 104>>, <<>> }

\* WhiteSpace and LineTerminator of String.prototype.trim.
IsWhiteSpace(u) ==
    \/ u \in {9, 10, 11, 12, 13, 32, 160, 5760, 8232, 8233, 8239, 8287, 12288, 65279}
    \/ u >= 8192 /\ u <= 8202

\* Chat page, handleSendMessage lines 170-174: what it sends is trimmed and
\* not empty.
ChatMessages ==
    { m \in Messages :
        m # <<>> /\ ~IsWhiteSpace(m[1]) /\ ~IsWhiteSpace(m[Len(m)]) }

\* The raw AES keys and the nonces that encryptMessage may generate.
AesKeys == { <<17>>, <<34>> }
Ivs == { [i \in 1..IvLength |-> i], [i \in 1..IvLength |-> 255 - i] }

\* useEncryption, decrypt, lines 115-133.
Decrypt(encryptedMessage, privateKey) ==
    IF ~StartsWith(encryptedMessage, Marker) THEN encryptedMessage
    ELSE IF privateKey = NoKey THEN KeyNotAvailable
    ELSE DecryptMessage(SubSeq(encryptedMessage, MarkerLength + 1,
                               Len(encryptedMessage)), privateKey)

\* encryptMessage under the public key of pair k, then decryptMessage and the
\* hook's decrypt of the result under a private key.
EncryptThenDecrypt(message, k, privateKey, aesKey, iv) ==
    /\ LET encrypted == EncryptMessage(message, PublicKey(k), aesKey, iv)
       IN e2e' = [op |-> "encrypt_decrypt", c |-> 0, message |-> message,
                  recipientId |-> NoId, publicKey |-> PublicKey(k),
                  result |-> encrypted, privateKey |-> privateKey,
                  decrypted |-> DecryptMessage(encrypted, privateKey),
                  shown |-> Decrypt(Marker \o encrypted, privateKey)]
    /\ UNCHANGED <<isReady, privateKeyRef, publicKeyCache, decryptedMessages>>
    /\ UNCHANGED serverVars

\* useEncryption, the init effect, lines 27-57: initializeEncryption throws,
\* or it returns the key pair and the upload throws, or the upload returns.
InitEncryption(c, outcome) ==
    /\ st[c] = "connected"
    /\ privateKeyRef[c] = NoKey
    /\ ~isReady[c]
    /\ privateKeyRef' = IF outcome = "init_failed" THEN privateKeyRef
                        ELSE [privateKeyRef EXCEPT ![c] = PrivateKey(c)]
    /\ isReady' = [isReady EXCEPT ![c] = (outcome = "ready")]
    /\ UNCHANGED <<publicKeyCache, decryptedMessages, e2e>>
    /\ UNCHANGED serverVars

\* What GET /api/auth/public-key/:recipientId can bring: no key (the
\* response is not ok, or the fetch throws), or the public key that a client
\* of the recipient uploaded.
FetchedKeys(recipientId) ==
    {NoKey} \cup { PublicKey(k) : k \in { x \in Conns :
                                            /\ sock[x].odlserId = recipientId
                                            /\ privateKeyRef[x] # NoKey } }

\* useEncryption, getRecipientPublicKey and encrypt, lines 60-112.
Encrypt(c, message, recipientId, fetched, aesKey, iv) ==
    /\ st[c] = "connected"
    /\ fetched \in FetchedKeys(recipientId)
    /\ LET cached == Has(publicKeyCache[c], recipientId)
           recipientPublicKey ==
               IF cached THEN publicKeyCache[c][recipientId] ELSE fetched
           result ==
               IF ~isReady[c] \/ recipientPublicKey = NoKey THEN message
               ELSE Marker \o EncryptMessage(message, recipientPublicKey, aesKey, iv)
       IN /\ publicKeyCache' =
               IF isReady[c] /\ ~cached /\ fetched # NoKey
               THEN [publicKeyCache EXCEPT ![c] = Put(@, recipientId, fetched)]
               ELSE publicKeyCache
          /\ e2e' = [op |-> "encrypt", c |-> c, message |-> message,
                     recipientId |-> recipientId,
                     publicKey |-> IF isReady[c] THEN recipientPublicKey ELSE NoKey,
                     result |-> result, privateKey |-> NoKey,
                     decrypted |-> <<>>, shown |-> <<>>]
    /\ UNCHANGED <<isReady, privateKeyRef, decryptedMessages>>
    /\ UNCHANGED serverVars

\* Chat page, the decryptNewMessages effect, lines 88-101, on a private
\* message that the socket hook (lines 60-80) has just added to the open room.
DecryptNewMessages(c, i) ==
    /\ i \in DOMAIN out
    /\ out[i].to = c
    /\ out[i].ev = "receive_private_message"
    /\ StartsWith(out[i].content, Marker)
    /\ ~Has(decryptedMessages[c], out[i].id)
    /\ decryptedMessages' =
         [decryptedMessages EXCEPT ![c] =
            Put(@, out[i].id, Decrypt(out[i].content, privateKeyRef[c]))]
    /\ UNCHANGED <<isReady, privateKeyRef, publicKeyCache, e2e>>
    /\ UNCHANGED serverVars

\* ------------------------------------------------------------------- Spec
Next ==
    \/ \E c \in Conns, h \in Handshakes : MiddlewareStart(c, h[1], h[2], h[3])
    \/ \E c \in Conns, ok \in BOOLEAN : MiddlewareQueryDone(c, ok)
    \/ \E c \in Conns, ok \in BOOLEAN : MiddlewareUpdateDone(c, ok)
    \/ \E c \in Conns, r \in Rooms : JoinRoom(c, r)
    \/ \E c \in Conns, r \in Rooms : LeaveRoom(c, r)
    \/ /\ nextId < MaxSends
       /\ \E c \in Conns, r \in Rooms, content \in Contents, type \in Types :
             SendMessageStart(c, r, content, type)
    \/ \E op \in pending, ok \in BOOLEAN : SendMessageDone(op, ok)
    \/ /\ nextId < MaxSends
       /\ \E c \in Conns, rcpt \in RecipientIds, content \in Contents, type \in Types :
             SendPrivateMessageStart(c, rcpt, content, type)
    \/ \E op \in pending, ok \in BOOLEAN : SendPrivateMessageDone(op, ok)
    \/ \E c \in Conns : DisconnectStart(c)
    \/ \E c \in Conns, ok \in BOOLEAN : DisconnectDone(c, ok)

Spec == Init /\ [][Next]_vars

\* The relay without the message handlers: connections, room membership and
\* disconnects only. The message handlers write none of st, sioRooms,
\* onlineUsers, userSockets and presence.
NextRegistry ==
    \/ \E c \in Conns, h \in Handshakes : MiddlewareStart(c, h[1], h[2], h[3])
    \/ \E c \in Conns, ok \in BOOLEAN : MiddlewareQueryDone(c, ok)
    \/ \E c \in Conns, ok \in BOOLEAN : MiddlewareUpdateDone(c, ok)
    \/ \E c \in Conns, r \in Rooms : JoinRoom(c, r)
    \/ \E c \in Conns, r \in Rooms : LeaveRoom(c, r)
    \/ \E c \in Conns : DisconnectStart(c)
    \/ \E c \in Conns, ok \in BOOLEAN : DisconnectDone(c, ok)

SpecRegistry == Init /\ [][NextRegistry]_vars

\* The relay with private messages only, between the two users, of the
\* default type: connections of the two users whose handshake the store
\* answers (a refused socket sends nothing), disconnects and
\* send_private_message. The handler reads none of the room memberships.
NextDirect ==
    \/ \E c \in Conns, h \in UserHandshakes : MiddlewareStart(c, h[1], h[2], h[3])
    \/ \E c \in Conns : MiddlewareQueryDone(c, TRUE)
    \/ \E c \in Conns : MiddlewareUpdateDone(c, TRUE)
    \/ /\ nextId < MaxSends
       /\ \E c \in Conns, rcpt \in UserIds, content \in Contents :
             SendPrivateMessageStart(c, rcpt, content, "")
    \/ \E op \in pending, ok \in BOOLEAN : SendPrivateMessageDone(op, ok)
    \/ \E c \in Conns : DisconnectStart(c)
    \/ \E c \in Conns, ok \in BOOLEAN : DisconnectDone(c, ok)

SpecDirect == Init /\ [][NextDirect]_vars

\* The buffer on its own: addMessageToStore applied to one message after
\* another. Message k of a run has id k; the rooms are the DM rooms of the two
\* users with each other and of user a with itself, the second one only for
\* the first two messages of a run.
BufferRooms == { DmRoom(IdA, IdB), DmRoom(IdA, IdA) }

BufferMessage(id, room) == StoredMessage(id, "hi", IdA, "alice", room, "text")

BufferAppend(room) ==
    /\ nextId' = nextId + 1
    /\ messageStore' = AddMessageToStore(messageStore, room,
                                         BufferMessage(nextId', room))
    /\ out' = <<>>
    /\ last' = Step("add_message", 0, nextId', TRUE, room, NoId, "hi")
    /\ rest' = NoRest
    /\ UNCHANGED <<usersDb, clientVars>>
    /\ UNCHANGED <<inbox, friendRequests, friends, calls, nCalls>>
    /\ UNCHANGED <<st, hs, sock, refusal, sioRooms, onlineUsers, userSockets,
                   messagesDb, presence, pending, announced>>

NextBuffer ==
    /\ nextId < MaxAppends
    /\ \E room \in BufferRooms :
          /\ (room = DmRoom(IdA, IdA)) => nextId < 2
          /\ BufferAppend(room)

SpecBuffer == Init /\ [][NextBuffer]_vars

\* The relay with one broadcast room and untyped room messages only:
\* connections of the two users, join_room and send_message, with as many
\* send_message handlers suspended at their write as the run has sent.
NextOrder ==
    \/ \E c \in Conns, h \in UserHandshakes : MiddlewareStart(c, h[1], h[2], h[3])
    \/ \E c \in Conns, ok \in BOOLEAN : MiddlewareQueryDone(c, ok)
    \/ \E c \in Conns, ok \in BOOLEAN : MiddlewareUpdateDone(c, ok)
    \/ \E c \in Conns : JoinRoom(c, RoomG)
    \/ /\ nextId < MaxOrderSends
       /\ \E c \in Conns, content \in Contents : SendMessageStart(c, RoomG, content, "")
    \/ \E op \in pending, ok \in BOOLEAN : SendMessageDone(op, ok)

SpecOrder == Init /\ [][NextOrder]_vars

\* The relay with one broadcast room: connections of the two users,
\* join_room and untyped send_message, within the bound on sends of Spec.
NextRejoin ==
    \/ \E c \in Conns, h \in UserHandshakes : MiddlewareStart(c, h[1], h[2], h[3])
    \/ \E c \in Conns, ok \in BOOLEAN : MiddlewareQueryDone(c, ok)
    \/ \E c \in Conns, ok \in BOOLEAN : MiddlewareUpdateDone(c, ok)
    \/ \E c \in Conns : JoinRoom(c, RoomG)
    \/ /\ nextId < MaxSends
       /\ \E c \in Conns, content \in Contents : SendMessageStart(c, RoomG, content, "")
    \/ \E op \in pending, ok \in BOOLEAN : SendMessageDone(op, ok)

SpecRejoin == Init /\ [][NextRejoin]_vars

\* The friends routes on their own: send request, accept and reject, with
\* any number of requests in flight at once.
NextFriends ==
    \/ /\ nCalls < MaxCalls
       /\ \/ \E uid \in RestUids, userId \in RecipientIds :
                AuthMiddlewareStart("request", uid, userId, 0)
          \/ \E uid \in RestUids, requestId \in RequestIds :
                AuthMiddlewareStart("accept", uid, NoId, requestId)
          \/ \E uid \in RestUids, requestId \in RequestIds :
                AuthMiddlewareStart("reject", uid, NoId, requestId)
    \/ \E call \in calls, ok \in BOOLEAN : AuthMiddlewareDone(call, ok)
    \/ \E call \in calls, ok \in BOOLEAN : SendRequestRecipientDone(call, ok)
    \/ \E call \in calls, ok \in BOOLEAN : SendRequestUserDone(call, ok)
    \/ \E call \in calls, ok \in BOOLEAN : SendRequestExistingDone(call, ok)
    \/ \E call \in calls, ok \in BOOLEAN : SendRequestReverseDone(call, ok)
    \/ \E call \in calls, ok \in BOOLEAN : SendRequestAddDone(call, ok)
    \/ \E call \in calls, ok \in BOOLEAN : AcceptGetDone(call, ok)
    \/ \E call \in calls, ok \in BOOLEAN : AcceptStatusDone(call, ok)
    \/ \E call \in calls, ok \in BOOLEAN : AcceptMineDone(call, ok)
    \/ \E call \in calls, ok \in BOOLEAN : AcceptTheirsDone(call, ok)
    \/ \E call \in calls, ok \in BOOLEAN : AcceptSenderDone(call, ok)
    \/ \E call \in calls, ok \in BOOLEAN : RejectGetDone(call, ok)
    \/ \E call \in calls, ok \in BOOLEAN : RejectStatusDone(call, ok)

SpecFriends == Init /\ [][NextFriends]_vars

\* Private messages and their history: connections of the two users,
\* send_private_message between them, and the REST routes that make two users
\* friends and fetch a DM history, one REST request at a time.
NextHistory ==
    \/ \E c \in Conns, h \in UserHandshakes : MiddlewareStart(c, h[1], h[2], h[3])
    \/ \E c \in Conns, ok \in BOOLEAN : MiddlewareQueryDone(c, ok)
    \/ \E c \in Conns, ok \in BOOLEAN : MiddlewareUpdateDone(c, ok)
    \/ /\ nextId < MaxSends
       /\ \E c \in Conns, rcpt \in UserIds, content \in Contents :
             SendPrivateMessageStart(c, rcpt, content, "")
    \/ \E op \in pending, ok \in BOOLEAN : SendPrivateMessageDone(op, ok)
    \/ /\ nCalls < MaxCalls
       /\ calls = {}
       /\ \/ \E uid \in RestUids \ {""}, userId \in UserIds :
                AuthMiddlewareStart("request", uid, userId, 0)
          \/ \E uid \in RestUids \ {""} :
                AuthMiddlewareStart("accept", uid, NoId, 1)
          \/ \E uid \in RestUids \ {""}, friendId \in UserIds :
                AuthMiddlewareStart("dm", uid, friendId, 0)
    \/ \E call \in calls, ok \in BOOLEAN : AuthMiddlewareDone(call, ok)
    \/ \E call \in calls, ok \in BOOLEAN : SendRequestRecipientDone(call, ok)
    \/ \E call \in calls, ok \in BOOLEAN : SendRequestUserDone(call, ok)
    \/ \E call \in calls, ok \in BOOLEAN : SendRequestExistingDone(call, ok)
    \/ \E call \in calls, ok \in BOOLEAN : SendRequestReverseDone(call, ok)
    \/ \E call \in calls, ok \in BOOLEAN : SendRequestAddDone(call, ok)
    \/ \E call \in calls, ok \in BOOLEAN : AcceptGetDone(call, ok)
    \/ \E call \in calls, ok \in BOOLEAN : AcceptStatusDone(call, ok)
    \/ \E call \in calls, ok \in BOOLEAN : AcceptMineDone(call, ok)
    \/ \E call \in calls, ok \in BOOLEAN : AcceptTheirsDone(call, ok)
    \/ \E call \in calls, ok \in BOOLEAN : AcceptSenderDone(call, ok)
    \/ \E call \in calls, ok \in BOOLEAN : DmUserDone(call, ok)
    \/ \E call \in calls, ok \in BOOLEAN : DmQueryDone(call, ok)

SpecHistory == Init /\ [][NextHistory]_vars

\* The encryption functions on their own: every message under every
\* public key, AES key and nonce, decrypted under every private key and
\* under none.
NextCipher ==
    \E message \in Messages, k \in KeyPairs,
       privateKey \in { PrivateKey(p) : p \in KeyPairs } \cup {NoKey},
       aesKey \in AesKeys, iv \in Ivs :
          EncryptThenDecrypt(message, k, privateKey, aesKey, iv)

SpecCipher == Init /\ [][NextCipher]_vars

\* Encrypted private messages end to end: the two users connect, their
\* clients initialise the encryption layer, one encrypts a message and sends
\* the result as a private message, and the clients decrypt what the relay
\* delivers to them.
NextSecure ==
    \/ \E c \in Conns, h \in UserHandshakes : MiddlewareStart(c, h[1], h[2], h[3])
    \/ \E c \in Conns : MiddlewareQueryDone(c, TRUE)
    \/ \E c \in Conns : MiddlewareUpdateDone(c, TRUE)
    \/ \E c \in Conns, outcome \in {"init_failed", "upload_failed", "ready"} :
          InitEncryption(c, outcome)
    \/ /\ nextId < MaxSends
       /\ \E c \in Conns, message \in ChatMessages, recipientId \in UserIds,
             fetched \in {NoKey} \cup { PublicKey(k) : k \in KeyPairs } :
             Encrypt(c, message, recipientId, fetched,
                     CHOOSE k \in AesKeys : TRUE, CHOOSE iv \in Ivs : TRUE)
    \/ /\ nextId < MaxSends
       /\ e2e.op = "encrypt"
       /\ SendPrivateMessageStart(e2e.c, e2e.recipientId, e2e.result, "")
    \/ \E op \in pending : SendPrivateMessageDone(op, TRUE)
    \/ \E c \in Conns, i \in 1..(2 * NConns) : DecryptNewMessages(c, i)

SpecSecure == Init /\ [][NextSecure]_vars

\* The identity resolver on its own: /firebase-sync requests, any number of
\* them in flight at once.
NextSync ==
    \/ /\ nCalls < MaxSyncs
       /\ \E body \in SyncBodies : SyncStart(body)
    \/ \E call \in calls, ok \in BOOLEAN : SyncQueryDone(call, ok)
    \/ \E call \in calls, ok \in BOOLEAN : SyncUpdateDone(call, ok)
    \/ \E call \in calls, ok \in BOOLEAN : SyncAddDone(call, ok)

SpecSync == Init /\ [][NextSync]_vars

\* Handshakes with credentials told apart. The ID token the identity
\* provider issued to the holder of an external UID (the client's
\* firebaseUser.getIdToken()):
IdToken(firebaseUid) == "idtoken-" \o firebaseUid

\* <<token, firebaseUid, username>> of a client that signed in as the UID it
\* presents, and of a client that presents the UID of user a with a made-up
\* token or with the token issued for user b.
SignedInHandshakes ==
    { <<IdToken(d.firebaseUid), d.firebaseUid, "Guest">> : d \in UserDocs }

ForeignHandshakes ==
    { <<"made-up", "ua", "Guest">>, <<IdToken("ub"), "ua", "Guest">> }

NextCredentials ==
    \/ \E c \in Conns, h \in SignedInHandshakes \cup ForeignHandshakes :
          MiddlewareStart(c, h[1], h[2], h[3])
    \/ \E c \in Conns, ok \in BOOLEAN : MiddlewareQueryDone(c, ok)
    \/ \E c \in Conns, ok \in BOOLEAN : MiddlewareUpdateDone(c, ok)
    \/ \E c \in Conns : DisconnectStart(c)
    \/ \E c \in Conns, ok \in BOOLEAN : DisconnectDone(c, ok)

SpecCredentials == Init /\ [][NextCredentials]_vars

\* Messages of both kinds; data.room of send_message is any string of the
\* client's choosing: a group room, or the id of the direct-message room of
\* users a and x.
SendMessageRooms == {RoomG, DmRoom(IdA, IdX)}

NextDmRooms ==
    \/ \E c \in Conns, h \in UserHandshakes : MiddlewareStart(c, h[1], h[2], h[3])
    \/ \E c \in Conns : MiddlewareQueryDone(c, TRUE)
    \/ \E c \in Conns : MiddlewareUpdateDone(c, TRUE)
    \/ /\ nextId < MaxSends
       /\ \E c \in Conns, r \in SendMessageRooms, content \in Contents :
             SendMessageStart(c, r, content, "")
    \/ \E op \in pending, ok \in BOOLEAN : SendMessageDone(op, ok)
    \/ /\ nextId < MaxSends
       /\ \E c \in Conns, rcpt \in RecipientIds, content \in Contents :
             SendPrivateMessageStart(c, rcpt, content, "")
    \/ \E op \in pending, ok \in BOOLEAN : SendPrivateMessageDone(op, ok)

SpecDmRooms == Init /\ [][NextDmRooms]_vars

\* The relay with its notification events beside the registry and a room.
NextNotify ==
    \/ \E c \in Conns, h \in UserHandshakes : MiddlewareStart(c, h[1], h[2], h[3])
    \/ \E c \in Conns : MiddlewareQueryDone(c, TRUE)
    \/ \E c \in Conns : MiddlewareUpdateDone(c, TRUE)
    \/ \E c \in Conns : JoinRoom(c, RoomG)
    \/ \E c \in Conns, r \in Rooms : TypingStart(c, r)
    \/ \E c \in Conns, r \in Rooms : TypingStop(c, r)
    \/ \E c \in Conns, id \in RecipientIds : SendFriendRequest(c, id)
    \/ \E c \in Conns, id \in RecipientIds : AcceptFriendRequest(c, id)
    \/ \E c \in Conns, id \in RecipientIds : RejectFriendRequest(c, id)

SpecNotify == Init /\ [][NextNotify]_vars

\* ================================================================ claims
\* The number of events of the last step that socket c received with the
\* given name, message id, room and content.
Received(c, ev, id, room, content) ==
    Cardinality({ i \in DOMAIN out :
                    /\ out[i].to = c
                    /\ out[i].ev = ev
                    /\ out[i].id = id
                    /\ out[i].room = room
                    /\ out[i].content = content })

\* The number of events of the last step that socket c received under a name.
ReceivedNamed(c, ev) ==
    Cardinality({ i \in DOMAIN out : out[i].to = c /\ out[i].ev = ev })

\* The sockets of an identity.
SocketsOf(u) == { c \in Conns : sock[c].odlserId = u }

\* C1: when a send_message has been processed, exactly one receive_message
\* with the sent content and room went to each socket joined to the room
\* (k events for k joined sockets) and none to any other socket.
C1_ExactlyKDeliveries ==
    last.op = "send_message_done" =>
        \A c \in Conns :
            Received(c, "receive_message", last.id, last.room, last.content)
              = IF c \in RoomMembers(last.room) THEN 1 ELSE 0

\* C2: when a send_private_message has been processed, the sender's socket
\* (while open) received exactly one receive_private_message, the sockets of
\* the recipient identity at most one in total, and no other socket any.
C2_SenderOnceRecipientAtMostOnce ==
    last.op = "send_private_message_done" =>
        /\ Live(last.c) => ReceivedNamed(last.c, "receive_private_message") = 1
        /\ Cardinality({ i \in DOMAIN out :
                           /\ out[i].ev = "receive_private_message"
                           /\ out[i].to \in SocketsOf(last.rcpt) }) <= 1
        /\ \A c \in Conns :
             (c # last.c /\ c \notin SocketsOf(last.rcpt)) =>
                 ReceivedNamed(c, "receive_private_message") = 0

\* C3: when the durable write of a send_message failed, every socket joined
\* to the room still received the receive_message, and the sender's socket
\* (while open) received an error event.
C3_FanOutSurvivesWriteFailure ==
    (last.op = "send_message_done" /\ ~last.ok) =>
        /\ \A c \in RoomMembers(last.room) :
             Received(c, "receive_message", last.id, last.room, last.content) = 1
        /\ Live(last.c) => ReceivedNamed(last.c, "error") = 1

\* C4: when the durable write of a send_private_message failed, the message
\* is in the buffer of the DM room derived from sender and recipient, the
\* sender's socket (while open) and the socket the registry resolves for the
\* recipient (while open) received it, and no error event was emitted.
C4_PrivateMessageSurvivesWriteFailure ==
    (last.op = "send_private_message_done" /\ ~last.ok) =>
        LET dm == DmRoom(sock[last.c].odlserId, last.rcpt)
        IN /\ \E i \in DOMAIN GetMessagesFromStore(dm) :
                /\ GetMessagesFromStore(dm)[i]._id = last.id
                /\ GetMessagesFromStore(dm)[i].content = last.content
                /\ GetMessagesFromStore(dm)[i].sender = sock[last.c].odlserId
           /\ Live(last.c) =>
                Received(last.c, "receive_private_message", last.id, dm,
                         last.content) >= 1
           /\ (Has(userSockets, last.rcpt) /\ Live(userSockets[last.rcpt])) =>
                Received(userSockets[last.rcpt], "receive_private_message",
                         last.id, dm, last.content) >= 1
           /\ \A i \in DOMAIN out : out[i].ev # "error"

\* C4 witness: a failed write after which sender and a different recipient
\* socket both received the private message.
C4_Witness ==
    /\ last.op = "send_private_message_done"
    /\ ~last.ok
    /\ Live(last.c)
    /\ Has(userSockets, last.rcpt)
    /\ userSockets[last.rcpt] # last.c
    /\ ReceivedNamed(userSockets[last.rcpt], "receive_private_message") = 1
    /\ ReceivedNamed(last.c, "receive_private_message") = 1

\* C5: for every open socket in onlineUsers, userSockets resolves the
\* socket's identity to an open socket of that identity.
C5_RegistryMapsConsistent ==
    \A c \in DOMAIN onlineUsers :
        Live(c) =>
            /\ Has(userSockets, onlineUsers[c].odlserId)
            /\ Live(userSockets[onlineUsers[c].odlserId])
            /\ sock[userSockets[onlineUsers[c].odlserId]].odlserId
                 = onlineUsers[c].odlserId

\* C6: no two open sockets in onlineUsers have the same odlserId.
C6_OneSessionPerIdentity ==
    \A c \in DOMAIN onlineUsers, d \in DOMAIN onlineUsers :
        (c # d /\ Live(c) /\ Live(d)) =>
            onlineUsers[c].odlserId # onlineUsers[d].odlserId

\* C7: a socket whose disconnect cleanup has completed has no entry in
\* onlineUsers and is the value of no entry of userSockets; when no socket
\* is in its handshake, open or in cleanup, both maps are empty.
C7_DisconnectLeavesNoEntry ==
    /\ \A c \in Conns :
         st[c] = "closed" =>
            /\ ~Has(onlineUsers, c)
            /\ \A u \in DOMAIN userSockets : userSockets[u] # c
    /\ (\A c \in Conns : st[c] \in {"new", "refused", "closed"}) =>
            /\ DOMAIN onlineUsers = {}
            /\ DOMAIN userSockets = {}

\* C7 witness: every socket completed a handshake, was registered and has
\* completed its disconnect.
C7_Witness ==
    \A c \in Conns : st[c] = "closed" /\ c \in announced

\* The handshake of socket c lacks the token or the firebaseUid, or its
\* firebaseUid matches no user document.
Unauthenticated(c) ==
    \/ hs[c].token = ""
    \/ hs[c].firebaseUid = ""
    \/ \A d \in UserDocs : d.firebaseUid # hs[c].firebaseUid

\* C8: a socket whose handshake lacks the token or the firebaseUid, or whose
\* firebaseUid matches no user document, is never open: it is refused (or
\* still waiting for the user query), has joined no room, has no entry in
\* either registry map, no online status was broadcast for it, and the only
\* steps that ran for it are the middleware's.
C8_UnauthenticatedRefused ==
    \A c \in Conns :
        (st[c] # "new" /\ Unauthenticated(c)) =>
            /\ st[c] \in {"querying", "refused"}
            /\ sioRooms[c] = {}
            /\ ~Has(onlineUsers, c)
            /\ \A u \in DOMAIN userSockets : userSockets[u] # c
            /\ c \notin announced
            /\ last.c = c =>
                 /\ last.op \in {"middleware", "middleware_query"}
                 /\ out = <<>>

\* C8 witness: a socket was refused because its firebaseUid matches no user
\* document, while another socket is open.
C8_Witness ==
    \E c \in Conns, d \in Conns :
        /\ st[c] = "refused"
        /\ refusal[c] = "User not found"
        /\ hs[c].token # ""
        /\ Live(d)

\* C9: when the presence write of a handshake failed (token and firebaseUid
\* present and resolved to a user), the socket is open, registered in both
\* maps and its online status was broadcast.
C9_HandshakeSurvivesPresenceFailure ==
    (last.op = "connection" /\ ~last.ok) =>
        /\ st[last.c] = "connected"
        /\ Has(onlineUsers, last.c)
        /\ Has(userSockets, sock[last.c].odlserId)
        /\ last.c \in announced
        /\ ReceivedNamed(last.c, "user_status_change") = 1

\* C10: the disconnect of a registered socket first emits one user_left to
\* every other socket of each room the socket had joined; when its presence
\* write has returned or failed, the socket has no entry in either registry
\* map and one offline user_status_change went to every open socket.
C10_DisconnectCleanup ==
    /\ (last.op = "disconnect" /\ Has(onlineUsers, last.c)) =>
          /\ onlineUsers[last.c].rooms = last.rooms
          /\ \A r \in last.rooms :
               \A m \in RoomMembers(r) :
                  Cardinality({ i \in DOMAIN out :
                                  /\ out[i].to = m
                                  /\ out[i].ev = "user_left"
                                  /\ out[i].room = r
                                  /\ out[i].user = sock[last.c].odlserId }) = 1
    /\ last.op = "disconnect_done" =>
          /\ ~Has(onlineUsers, last.c)
          /\ ~Has(userSockets, sock[last.c].odlserId)
          /\ \A u \in DOMAIN userSockets : userSockets[u] # last.c
          /\ \A x \in Conns :
               Cardinality({ i \in DOMAIN out :
                               /\ out[i].to = x
                               /\ out[i].ev = "user_status_change"
                               /\ out[i].status = "offline"
                               /\ out[i].user = sock[last.c].odlserId })
                 = IF Live(x) THEN 1 ELSE 0

\* C10 witness: a disconnect whose presence write failed has completed for a
\* socket that had joined a room, and another socket is open to hear of it.
C10_Witness ==
    /\ last.op = "disconnect_done"
    /\ ~last.ok
    /\ last.rooms # {}
    /\ \E x \in Conns : Live(x) /\ ReceivedNamed(x, "user_status_change") = 1

\* C11: in the list of room messages a socket has received, two messages that
\* one connection sent to the same room stand in the order in which that
\* connection sent them (message ids count the sends).
C11_PerConnectionOrder ==
    \A c \in Conns :
        \A p \in DOMAIN inbox[c], q \in DOMAIN inbox[c] :
            (/\ p < q
             /\ inbox[c][p].conn = inbox[c][q].conn
             /\ inbox[c][p].room = inbox[c][q].room)
                => inbox[c][p]._id < inbox[c][q]._id

\* The number of entries of a user list that name identity u.
Listed(users, u) == Cardinality({ i \in DOMAIN users : users[i] = u })

C13_RoomUsersAnswer ==
    last.op = "join_room" =>
        /\ ReceivedNamed(last.c, "room_users") = 1
        /\ \A i \in DOMAIN out :
             out[i].ev = "room_users" =>
                /\ out[i].to = last.c
                /\ out[i].room = last.room
                /\ Listed(out[i].users, sock[last.c].odlserId) >= 1
                /\ { out[i].users[j] : j \in DOMAIN out[i].users }
                     = { sock[x].odlserId : x \in RoomMembers(last.room) }

\* The ids of the messages a run of the buffer specification has appended
\* to a room, ascending: those of the other room are all still in its buffer.
AppendedIds(r) ==
    LET other == { m._id : m \in
                     UNION { { GetMessagesFromStore(x)[i] :
                                 i \in DOMAIN GetMessagesFromStore(x) } :
                             x \in BufferRooms \ {r} } }
    IN SetToSeq(IF r = DmRoom(IdA, IdA)
                THEN { GetMessagesFromStore(r)[i]._id :
                         i \in DOMAIN GetMessagesFromStore(r) }
                ELSE (1..nextId) \ other)

\* C14: the buffer of a room reads as the messages appended to the room,
\* oldest first; once more than 100 were appended it reads as exactly the last
\* 100 of them in the order of their appends; it never holds more than 100.
C14_BufferKeepsLastN ==
    \A r \in BufferRooms :
        LET got == GetMessagesFromStore(r)
            ids == AppendedIds(r)
            n == Len(ids)
            k == IF n > BufferCap THEN BufferCap ELSE n
        IN /\ Len(got) <= BufferCap
           /\ Len(got) = k
           /\ \A i \in 1..k : got[i] = BufferMessage(ids[n - k + i], r)

\* C14 witness: more than 100 messages were appended to one room, and its
\* buffer holds 100 messages of which the oldest is not the first appended.
C14_Witness ==
    /\ last.op = "add_message"
    /\ Len(AppendedIds(last.room)) > BufferCap
    /\ Len(GetMessagesFromStore(last.room)) = BufferCap
    /\ GetMessagesFromStore(last.room)[1]._id > AppendedIds(last.room)[1]
    /\ GetMessagesFromStore(last.room)[BufferCap]._id = last.id

\* Ids the derivation is compared on: the users' ids, an id without a
\* document, the empty id and an id that extends another one.
DmIds == { IdA, IdB, IdX, NoId, IdA \o IdB }

\* C15: whenever a send_private_message has derived its room: for all ids a
\* and b the relay's DM room of (a, b) is its DM room of (b, a) and is "dm_",
\* the smaller id, "_", the larger id, and the REST history routes and the
\* client derive the same room from the pair; and the room under which the
\* message was buffered is the room the recipient's history fetch and both
\* clients derive.
C15_DmRoomAgrees ==
    last.op = "send_private_message" =>
        /\ \A a \in DmIds, b \in DmIds :
              /\ DmRoom(a, b) = DmRoom(b, a)
              /\ DmRoom(a, b) = IF StrLess(a, b)
                                THEN DmPrefix \o a \o Underscore \o b
                                ELSE DmPrefix \o b \o Underscore \o a
              /\ HistoryDmRoom(a, b) = DmRoom(b, a)
              /\ ClientDmRoom(a, b) = DmRoom(b, a)
        /\ Has(messageStore, last.room)
        /\ last.room = HistoryDmRoom(last.rcpt, sock[last.c].odlserId)
        /\ last.room = ClientDmRoom(last.rcpt, sock[last.c].odlserId)
        /\ last.room = ClientDmRoom(sock[last.c].odlserId, last.rcpt)

\* C15 witness: a send_private_message whose sender id sorts after the
\* recipient id has buffered its message under the derived room.
C15_Witness ==
    /\ last.op = "send_private_message"
    /\ StrLess(last.rcpt, sock[last.c].odlserId)
    /\ last.room = DmPrefix \o last.rcpt \o Underscore \o sock[last.c].odlserId
    /\ Len(GetMessagesFromStore(last.room)) >= 1

\* The private messages in the buffer whose handler has run to its end.
Processed(room) ==
    { i \in DOMAIN GetMessagesFromStore(room) :
        \A op \in pending : op.msg._id # GetMessagesFromStore(room)[i]._id }

\* C16: when a send_private_message has been processed, the sender's socket
\* (while open) received the message and the message is in the buffer of the
\* derived DM room; and a DM history fetch of a user for a friend, none of
\* whose reads threw, is answered 200 with a list that holds, for every
\* processed private message the friend sent to the user (whether or not the
\* user was connected then), a message with its id and content.
C16_OfflineRecipientFetches ==
    /\ last.op = "send_private_message_done" =>
          /\ Live(last.c) =>
               Received(last.c, "receive_private_message", last.id, last.room,
                        last.content) >= 1
          /\ \E i \in DOMAIN GetMessagesFromStore(last.room) :
               GetMessagesFromStore(last.room)[i]._id = last.id
    /\ (/\ last.op = "rest"
        /\ rest.op = "dm"
        /\ rest.code # 0
        /\ ~rest.threw
        /\ rest.userId # NoId
        /\ rest.peer \in friends[rest.userId]) =>
          LET room == DmRoom(rest.peer, rest.userId)
              sent == GetMessagesFromStore(room)
          IN \A i \in Processed(room) :
                sent[i].sender = rest.peer =>
                   /\ rest.code = 200
                   /\ \E j \in DOMAIN rest.body :
                        /\ rest.body[j]._id = sent[i]._id
                        /\ rest.body[j].content = sent[i].content

\* C17: when a read of the durable store threw during the DM history fetch
\* of a user for a friend, the fetch is answered 200 with the buffer of the
\* derived DM room, oldest first.
C17_HistoryFallsBackToBuffer ==
    (/\ last.op = "rest"
     /\ rest.op = "dm"
     /\ rest.pc \in {"user", "query"}
     /\ rest.threw
     /\ rest.peer \in friends[rest.userId]) =>
        /\ rest.code = 200
        /\ rest.body = GetMessagesFromStore(HistoryDmRoom(rest.userId, rest.peer))

\* C18: when an accept has answered 200, the request is accepted and each of
\* the two users is in the other's friends; and an accept or reject that read
\* the request as accepted or rejected answers 404 and has written nothing.
C18_AcceptMakesFriends ==
    /\ (last.op = "rest" /\ rest.op = "accept" /\ rest.code = 200) =>
          /\ StatusOf(rest.requestId) = "accepted"
          /\ rest.peer \in friends[rest.userId]
          /\ rest.userId \in friends[rest.peer]
    /\ (/\ last.op = "rest"
        /\ rest.op \in {"accept", "reject"}
        /\ rest.pc = "get"
        /\ ~rest.threw
        /\ rest.before \in {"accepted", "rejected"}) =>
          /\ rest.code = 404
          /\ rest.wrote = {}

\* The accept and reject requests in flight.
Deciding == { call \in calls : call.kind \in {"accept", "reject"} }

\* C19: every write of a request's status by accept or reject overwrites
\* 'pending' (so a request leaves 'pending' once and its status never changes
\* afterwards); and when no accept or reject is in flight, a user is in
\* another's friends only if a request between the two is accepted.
C19_DecidedOnce ==
    /\ (/\ last.op = "rest"
        /\ rest.op \in {"accept", "reject"}
        /\ rest.pc = "status"
        /\ "status" \in rest.wrote) =>
          rest.before = "pending"
    /\ Deciding = {} =>
          \A u \in UserIds : \A v \in friends[u] :
             \E r \in DOMAIN friendRequests :
                /\ friendRequests[r].status = "accepted"
                /\ {friendRequests[r].senderId, friendRequests[r].recipientId}
                     = {u, v}

\* C20: an accept that has answered has either answered 200 with all three
\* of its writes applied, or answered an error with none of them applied; and
\* when no accept is in flight, a user is in another's friends exactly if
\* the other is in the user's.
C20_AcceptAtomic ==
    /\ (last.op = "rest" /\ rest.op = "accept" /\ rest.code # 0) =>
          \/ /\ rest.code = 200
             /\ rest.wrote = {"status", "mine", "theirs"}
          \/ /\ rest.code # 200
             /\ rest.wrote = {}
    /\ (\A call \in calls : call.kind # "accept") =>
          \A u \in UserIds, v \in UserIds :
             (v \in friends[u]) <=> (u \in friends[v])

\* C21: encryption round-trips: whatever the message, the key pair, the AES
\* key and the nonce, decryptMessage under the private key of the pair whose
\* public key encryptMessage used returns the message.
C21_RoundTrip ==
    (e2e.op = "encrypt_decrypt" /\ e2e.privateKey = PrivateKey(e2e.publicKey.id))
        => e2e.decrypted = e2e.message

C23_FailsOpenToPlaintext ==
    e2e.op = "encrypt" =>
        /\ e2e.publicKey = NoKey =>
              /\ e2e.result = e2e.message
              /\ ~StartsWith(e2e.result, Marker)
        /\ StartsWith(e2e.result, Marker) => e2e.publicKey # NoKey

C24_SyncPreservesProfile ==
    (rest.op = "sync" /\ rest.pc = "update" /\ rest.code = 200) =>
        /\ usersDb[rest.userId].username = rest.before.username
        /\ usersDb[rest.userId].avatar = rest.before.avatar
        /\ rest.body.username = usersDb[rest.userId].username
        /\ rest.body.avatar = usersDb[rest.userId].avatar

\* C24, amended: the document's username and avatar are those the handler
\* read; the response carries the stored value of each that is not empty, and
\* for an empty stored username the request's, or else the part of the
\* request's email before the '@'.
C24_SyncPreservesStoredProfile ==
    (rest.op = "sync" /\ rest.pc = "update" /\ rest.code = 200) =>
        /\ usersDb[rest.userId].username = rest.before.username
        /\ usersDb[rest.userId].avatar = rest.before.avatar
        /\ rest.before.username # "" => rest.body.username = rest.before.username
        /\ rest.before.avatar # "" => rest.body.avatar = rest.before.avatar
        /\ rest.before.username = "" =>
              rest.body.username = OrElse(rest.before.requested.username,
                                          LocalPart(rest.body.email))

C24_Witness ==
    /\ rest.op = "sync" /\ rest.pc = "update" /\ rest.code = 200
    /\ rest.before.requested.username = "provider-name"
    /\ rest.before.requested.avatar = "provider.png"
    /\ rest.body.username = "alice"
    /\ usersDb[rest.userId].username = "alice"

\* C25: provisioning is idempotent: whatever /firebase-sync requests have
\* run, retried or overlapping, no UID has more than one document, and a
\* response for a UID carries the id of that one document.
C25_OneRecordPerUid ==
    /\ \A id \in DOMAIN usersDb :
          UsersWithUid(usersDb[id].firebaseUid) = {id}
    /\ (rest.op = "sync" /\ rest.code = 200) =>
          UsersWithUid(rest.body.firebaseUid) = {rest.body.id}

\* C26: when a send_private_message addressed to identity U has been
\* processed and exactly one socket of U has completed its handshake and has
\* not disconnected, that socket received the message, whatever sockets of U
\* connected and disconnected before.
C26_LiveRecipientReceives ==
    last.op = "send_private_message_done" =>
        \A c \in Conns :
            { x \in SocketsOf(last.rcpt) : Live(x) } = {c} =>
                Received(c, "receive_private_message", last.id, last.room,
                         last.content) >= 1

\* C27: a socket is registered as an identity only if the token of its
\* handshake is the one issued for the external UID it presented, which is
\* that identity's UID.
C27_RegisteredOnlyWithValidCredential ==
    \A c \in Conns :
        (Has(onlineUsers, c) \/ st[c] = "connected") =>
            /\ hs[c].token = IdToken(hs[c].firebaseUid)
            /\ usersDb[sock[c].odlserId].firebaseUid = hs[c].firebaseUid

\* C28: every message persisted or buffered under the direct-message room of
\* a pair (x, y) has x or y as its sender.
C28_DmRoomHoldsOnlyThePair ==
    \A x \in RecipientIds, y \in RecipientIds :
        /\ \A i \in DOMAIN messagesDb :
              messagesDb[i].room = DmRoom(x, y) => messagesDb[i].sender \in {x, y}
        /\ Has(messageStore, DmRoom(x, y)) =>
              \A i \in DOMAIN messageStore[DmRoom(x, y)] :
                  messageStore[DmRoom(x, y)][i].sender \in {x, y}

NotifyOps ==
    {"typing_start", "typing_stop", "send_friend_request",
     "accept_friend_request", "reject_friend_request"}

\* The event each notification handler emits.
NotifyEvent(op) ==
    CASE op = "typing_start" -> "user_typing"
      [] op = "typing_stop" -> "user_stopped_typing"
      [] op = "send_friend_request" -> "friend_request_received"
      [] op = "accept_friend_request" -> "friend_request_accepted"
      [] op = "reject_friend_request" -> "friend_request_rejected"

====
